---- MODULE Spec2Model ----
(***************************************************************************)
(* Verification model of the ViGenAiR service (src/service):               *)
(*   - the storage-listing fan-in of the chunk analyses and of the variant *)
(*     renders (extractor/video_extractor.py, extractor/audio_extractor.py,*)
(*     combiner/combiner.py, storage/storage.py);                          *)
(*   - the segment optimiser and the segment splitter                      *)
(*     (video/video.py, extractor/extractor.py);                           *)
(*   - the grouping of a variant's segment ids (combiner/combiner.py).     *)
(* Times are integers (seconds); object keys are records of a folder path  *)
(* and a tokenised file name; segment ids are sequences of decimal digit   *)
(* strings, one per dotted component.                                      *)
(***************************************************************************)
EXTENDS Integers, Sequences, FiniteSets, TLC

VARIABLES
  scenario,     \* which fan-in the run exercises
  total,        \* the total embedded in the trigger names ({index}-{total})
  storage,      \* the bucket: the set of object keys that exist
  pc,           \* worker -> position in its invocation
  listed,       \* worker -> the count its listing returned (NoCount before)
  uploadCalls,  \* worker -> number of upload_gcs_file calls for the marker
  created,      \* worker -> TRUE when its upload created the marker object
  finaliser,    \* position of the invocation triggered by the render marker
  rawShots,     \* shot_annotations of the video analysis: <<[start, end], ...>>
  utterances,   \* transcription dataframe rows
  shots,        \* shots dataframe built by get_visual_shots_data
  avSegments,   \* the A/V segment table (optimised_av_segments / av_segments)
  presplit,     \* the table a split invocation read (presplit_data.json)
  splitMarkers, \* the markers of the last split request
  segPc,        \* position of the segment pipeline
  segmentIds,   \* av_segment_ids of a variant, the argument of the grouping
  groups,       \* the groups returned for them
  grpPc,        \* position of the grouping call
  variant,      \* the variant request of a render invocation and what it finds
  composed,     \* the windows, total duration and commands composed for it
  cmpPc,        \* position of the render composer
  annRows,      \* the rows finalise_av_segments is given
  annPc,        \* row -> position of its _cut_and_annotate_av_segment call
  annResponse,  \* row -> what the model answered for it ("none" before)
  annResult,    \* row -> the (description, keywords) its call returned
  descriptions, \* the descriptions list of cut_and_annotate_av_segments
  keywords,     \* its keywords list
  annCollected, \* how many futures the as_completed loop has handled
  annBatch,     \* position of finalise_av_segments
  annStorage,   \* the objects of the video's folder: key and content
  annRun,       \* how many times the trigger has been delivered
  annFirst,     \* the objects as the previous delivery left them
  annPrev,      \* how the previous delivery ended ("none" before)
  chkInput,     \* the file to chunk: medium, size or duration, limit
  chkFiles,     \* the files of output_dir
  chkResult,    \* the result list of _get_video_chunks / _get_audio_chunks
  chkCount,     \* file_count
  chkCurrent,   \* current_duration
  chkCuts,      \* how many ffmpeg cut commands have run
  chkStorage,   \* the objects of the video's folder, by name
  chkTotal,     \* the total_count of the immediate analysis (0: none)
  chkPc,        \* position of process_video / _process_video_with_audio
  trgKey,       \* the object key of the upload event
  trgFile,      \* the TriggerFile built for it
  trgTriggers,  \* the is_*_trigger predicates that hold of it
  trgPc,        \* position of the event handler
  rndRequest,   \* the variants of render.json: variant_id (NoCount: none given), fails
  rndStorage,   \* the objects of the combos folder
  rndInitial,   \* position of initial_render
  rndRender,    \* variant -> delivery -> position of that render invocation
  rndFinal,     \* delivery -> position of that finalise_render invocation
  rndFirst,     \* variant -> its objects when its first render had uploaded
  rndAggregated, \* the objects when the first finalise_render had ended
  astVariant,   \* the render settings of the variant of a render invocation
  astTodo,      \* the formats it has still to render
  astPaths,     \* rendered_paths, format -> its image assets
  astAnswers,   \* call -> what the model answered
  astStorage,   \* the objects of the combos folder
  astPc,        \* position of the invocation
  extInput,     \* medium -> whether the input is over its limit (audio: or "absent")
  extDir,       \* the files of the shared output_dir
  extProc,      \* medium -> position, file_count and result of its process
  extStorage,   \* the names of the objects uploaded from output_dir
  entSegments,  \* the optimised A/V segments the entities are attached to
  entResults,   \* kind -> the entities of the annotation results, in their order
  entData,      \* kind -> the dataframe built from them
  entAttached,  \* kind -> per segment, the list of values attached
  entPc,        \* position of the annotation of the segments
  joinAudio,    \* the marker the audio fan-in of the run writes
  joinVideo,    \* the markers the video fan-in of the run can write
  joinStorage,  \* the keys of the finalise markers in the bucket
  joinPc,       \* marker -> delivery -> position of its check_finalise_extraction
  joinListed,   \* marker -> delivery -> the count its listing returned
  joinCreated,  \* how many uploads of the extraction marker were accepted
  joinInput,    \* the input of the run: has it audio, its transcription service
  joinAudioPc,  \* position of process_audio of the run
  mrgChunks,    \* chunk index -> the rows of its transcript
  mrgListed,    \* the chunk indices in the order filter_files returned their transcripts
  mrgPos,       \* how many dataframes combine_analysis_chunks has combined
  mrgCombined,  \* combined_df
  mrgMaxId,     \* max_audio_segment_id
  mrgMaxEnd,    \* max_end_s
  mrgPc         \* position of extract_audio_finalise

fanVars == <<scenario, total, storage, pc, listed, uploadCalls, created,
             finaliser>>

segVars == <<rawShots, utterances, shots, avSegments, presplit, splitMarkers,
             segPc>>

grpVars == <<segmentIds, groups, grpPc>>

cmpVars == <<variant, composed, cmpPc>>

annVars == <<annRows, annPc, annResponse, annResult, descriptions, keywords,
             annCollected, annBatch, annStorage, annRun, annFirst, annPrev>>

chkVars == <<chkInput, chkFiles, chkResult, chkCount, chkCurrent, chkCuts,
             chkStorage, chkTotal, chkPc>>

trgVars == <<trgKey, trgFile, trgTriggers, trgPc>>

rndVars == <<rndRequest, rndStorage, rndInitial, rndRender, rndFinal, rndFirst, rndAggregated>>

astVars == <<astVariant, astTodo, astPaths, astAnswers, astStorage, astPc>>

extVars == <<extInput, extDir, extProc, extStorage>>

entVars == <<entSegments, entResults, entData, entAttached, entPc>>

joinVars == <<joinAudio, joinVideo, joinStorage, joinPc, joinListed, joinCreated,
              joinInput, joinAudioPc>>

mrgVars == <<mrgChunks, mrgListed, mrgPos, mrgCombined, mrgMaxId, mrgMaxEnd, mrgPc>>

vars == <<fanVars, segVars, grpVars, cmpVars, annVars, chkVars, trgVars, rndVars, astVars, extVars, entVars, joinVars, mrgVars>>

\* Each specification runs one part of the service; the variables of the
\* other parts stay at rest.
FanIdle ==
  /\ scenario = "none" /\ total = 0 /\ storage = {}
  /\ pc = <<>> /\ listed = <<>> /\ uploadCalls = <<>> /\ created = <<>>
  /\ finaliser = "idle"

SegIdle ==
  /\ rawShots = <<>> /\ utterances = <<>> /\ shots = <<>>
  /\ avSegments = <<>> /\ presplit = <<>> /\ splitMarkers = <<>>
  /\ segPc = "idle"

GrpIdle == segmentIds = <<>> /\ groups = <<>> /\ grpPc = "idle"

CmpIdle == variant = <<>> /\ composed = <<>> /\ cmpPc = "idle"

AnnIdle ==
  /\ annRows = <<>> /\ annPc = <<>> /\ annResponse = <<>> /\ annResult = <<>>
  /\ descriptions = <<>> /\ keywords = <<>> /\ annCollected = 0
  /\ annBatch = "idle" /\ annStorage = {} /\ annRun = 0 /\ annFirst = {}
  /\ annPrev = "none"

ChkIdle ==
  /\ chkInput = <<>> /\ chkFiles = {} /\ chkResult = <<>> /\ chkCount = 0
  /\ chkCurrent = 0 /\ chkCuts = 0 /\ chkStorage = {} /\ chkTotal = 0
  /\ chkPc = "idle"

TrgIdle ==
  /\ trgKey = <<>> /\ trgFile = <<>> /\ trgTriggers = {} /\ trgPc = "idle"

RndIdle ==
  /\ rndRequest = <<>> /\ rndStorage = {} /\ rndInitial = "idle"
  /\ rndRender = <<>> /\ rndFinal = <<>> /\ rndFirst = <<>>
  /\ rndAggregated = {}

AstIdle ==
  /\ astVariant = <<>> /\ astTodo = <<>> /\ astPaths = <<>> /\ astAnswers = <<>>
  /\ astStorage = {} /\ astPc = "idle"

ExtIdle ==
  /\ extInput = <<>> /\ extDir = {} /\ extProc = <<>> /\ extStorage = {}

EntIdle ==
  entSegments = <<>> /\ entResults = <<>> /\ entData = <<>> /\ entAttached = <<>> /\ entPc = "idle"

JoinIdle ==
  joinAudio = <<>> /\ joinVideo = {} /\ joinStorage = {} /\ joinPc = <<>> /\ joinListed = <<>> /\ joinCreated = 0
    /\ joinInput = <<>> /\ joinAudioPc = "none"

MrgIdle ==
  mrgChunks = <<>> /\ mrgListed = <<>> /\ mrgPos = 0 /\ mrgCombined = <<>> /\ mrgMaxId = 0 /\ mrgMaxEnd = 0 /\ mrgPc = "idle"

otherThanFan == <<segVars, grpVars, cmpVars, annVars, chkVars, trgVars, rndVars, astVars, extVars, entVars, joinVars, mrgVars>>

otherThanSeg == <<fanVars, grpVars, cmpVars, annVars, chkVars, trgVars, rndVars, astVars, extVars, entVars, joinVars, mrgVars>>

otherThanGrp == <<fanVars, segVars, cmpVars, annVars, chkVars, trgVars, rndVars, astVars, extVars, entVars, joinVars, mrgVars>>

otherThanCmp == <<fanVars, segVars, grpVars, annVars, chkVars, trgVars, rndVars, astVars, extVars, entVars, joinVars, mrgVars>>

otherThanAnn == <<fanVars, segVars, grpVars, cmpVars, chkVars, trgVars, rndVars, astVars, extVars, entVars, joinVars, mrgVars>>

otherThanChk == <<fanVars, segVars, grpVars, cmpVars, annVars, trgVars, rndVars, astVars, extVars, entVars, joinVars, mrgVars>>

otherThanTrg == <<fanVars, segVars, grpVars, cmpVars, annVars, chkVars, rndVars, astVars, extVars, entVars, joinVars, mrgVars>>

otherThanRnd == <<fanVars, segVars, grpVars, cmpVars, annVars, chkVars, trgVars, astVars, extVars, entVars, joinVars, mrgVars>>

otherThanAst == <<fanVars, segVars, grpVars, cmpVars, annVars, chkVars, trgVars, rndVars, extVars, entVars, joinVars, mrgVars>>

otherThanExt == <<fanVars, segVars, grpVars, cmpVars, annVars, chkVars, trgVars, rndVars, astVars, entVars, joinVars, mrgVars>>

otherThanEnt == <<fanVars, segVars, grpVars, cmpVars, annVars, chkVars, trgVars, rndVars, astVars, extVars, joinVars, mrgVars>>

otherThanJoin == <<fanVars, segVars, grpVars, cmpVars, annVars, chkVars, trgVars, rndVars, astVars, extVars, entVars, mrgVars>>

otherThanMrg == <<fanVars, segVars, grpVars, cmpVars, annVars, chkVars, trgVars, rndVars, astVars, extVars, entVars, joinVars>>

IdleExceptFan == SegIdle /\ GrpIdle /\ CmpIdle /\ AnnIdle /\ ChkIdle /\ TrgIdle /\ RndIdle /\ AstIdle /\ ExtIdle /\ EntIdle /\ JoinIdle /\ MrgIdle

IdleExceptSeg == FanIdle /\ GrpIdle /\ CmpIdle /\ AnnIdle /\ ChkIdle /\ TrgIdle /\ RndIdle /\ AstIdle /\ ExtIdle /\ EntIdle /\ JoinIdle /\ MrgIdle

IdleExceptGrp == FanIdle /\ SegIdle /\ CmpIdle /\ AnnIdle /\ ChkIdle /\ TrgIdle /\ RndIdle /\ AstIdle /\ ExtIdle /\ EntIdle /\ JoinIdle /\ MrgIdle

IdleExceptCmp == FanIdle /\ SegIdle /\ GrpIdle /\ AnnIdle /\ ChkIdle /\ TrgIdle /\ RndIdle /\ AstIdle /\ ExtIdle /\ EntIdle /\ JoinIdle /\ MrgIdle

IdleExceptAnn == FanIdle /\ SegIdle /\ GrpIdle /\ CmpIdle /\ ChkIdle /\ TrgIdle /\ RndIdle /\ AstIdle /\ ExtIdle /\ EntIdle /\ JoinIdle /\ MrgIdle

IdleExceptChk == FanIdle /\ SegIdle /\ GrpIdle /\ CmpIdle /\ AnnIdle /\ TrgIdle /\ RndIdle /\ AstIdle /\ ExtIdle /\ EntIdle /\ JoinIdle /\ MrgIdle

IdleExceptTrg == FanIdle /\ SegIdle /\ GrpIdle /\ CmpIdle /\ AnnIdle /\ ChkIdle /\ RndIdle /\ AstIdle /\ ExtIdle /\ EntIdle /\ JoinIdle /\ MrgIdle

IdleExceptRnd == FanIdle /\ SegIdle /\ GrpIdle /\ CmpIdle /\ AnnIdle /\ ChkIdle /\ TrgIdle /\ AstIdle /\ ExtIdle /\ EntIdle /\ JoinIdle /\ MrgIdle

IdleExceptAst == FanIdle /\ SegIdle /\ GrpIdle /\ CmpIdle /\ AnnIdle /\ ChkIdle /\ TrgIdle /\ RndIdle /\ ExtIdle /\ EntIdle /\ JoinIdle /\ MrgIdle

IdleExceptExt == FanIdle /\ SegIdle /\ GrpIdle /\ CmpIdle /\ AnnIdle /\ ChkIdle /\ TrgIdle /\ RndIdle /\ AstIdle /\ EntIdle /\ JoinIdle /\ MrgIdle

IdleExceptEnt == FanIdle /\ SegIdle /\ GrpIdle /\ CmpIdle /\ AnnIdle /\ ChkIdle /\ TrgIdle /\ RndIdle /\ AstIdle /\ ExtIdle /\ JoinIdle /\ MrgIdle

IdleExceptJoin == FanIdle /\ SegIdle /\ GrpIdle /\ CmpIdle /\ AnnIdle /\ ChkIdle /\ TrgIdle /\ RndIdle /\ AstIdle /\ ExtIdle /\ EntIdle /\ MrgIdle

IdleExceptMrg == FanIdle /\ SegIdle /\ GrpIdle /\ CmpIdle /\ AnnIdle /\ ChkIdle /\ TrgIdle /\ RndIdle /\ AstIdle /\ ExtIdle /\ EntIdle /\ JoinIdle

(***************************************************************************)
(* Bounds                                                                  *)
(***************************************************************************)
MaxTotal == 3
MaxTime == 3
MaxShots == 2
MaxUtterances == 2
MaxMarkers == 2
MaxIds == 3
MaxDepth == 2
MaxPart == 2

(***************************************************************************)
(* Generic helpers                                                         *)
(***************************************************************************)
NoCount == 0 - 1

IsPrefixOf(p, s) == Len(p) <= Len(s) /\ SubSeq(s, 1, Len(p)) = p

EndsWith(s, suffix) ==
  Len(suffix) <= Len(s) /\ SubSeq(s, Len(s) - Len(suffix) + 1, Len(s)) = suffix

(***************************************************************************)
(* config/config.py: file-name constants, tokenised so that str.endswith   *)
(* is suffix matching on token sequences.                                  *)
(***************************************************************************)
INPUT_FILENAME == <<"input">>
INPUT_RENDERING_FILE == <<"render.json">>
INPUT_RENDERING_FINALISE_FILE == <<"finalise.txt">>
INPUT_EXTRACTION_FINALISE_SUFFIX == <<"_", "finalise.txt">>
INPUT_EXTRACTION_FINALISE_AUDIO_FILE == <<"audio">> \o INPUT_EXTRACTION_FINALISE_SUFFIX
INPUT_EXTRACTION_FINALISE_VIDEO_FILE == <<"video">> \o INPUT_EXTRACTION_FINALISE_SUFFIX
INPUT_EXTRACTION_AUDIO_FILENAME_SUFFIX == <<"_aaa">>
INPUT_EXTRACTION_VIDEO_FILENAME_SUFFIX == <<"_vvv">>
OUTPUT_LANGUAGE_INFO_FILE == <<"language.json">>
OUTPUT_ANALYSIS_FILE == <<"analysis.json">>
OUTPUT_TRANSCRIPT_FILE == <<"transcript.json">>
OUTPUT_COMBINATIONS_FILE == <<"combos.json">>
OUTPUT_ANALYSIS_CHUNKS_DIR == "analysis_chunks"

(***************************************************************************)
(* Object keys.  folder: the path components; idx/tot: the leading         *)
(* "{index}-{total}" of the file name (0/0 when the name has none); rest:  *)
(* the remaining tokens of the file name.                                  *)
(***************************************************************************)
Key(folder, idx, tot, rest) ==
  [folder |-> folder, idx |-> idx, tot |-> tot, rest |-> rest]

RootFolder == <<"root">>
ChunksFolder == <<"root", OUTPUT_ANALYSIS_CHUNKS_DIR>>
CombosFolder == <<"root", "combos">>

\* utils.py TriggerFile.__init__: gcs_folder and gcs_root_folder of a key
GcsFolder(trigger) == trigger.folder
GcsRootFolder(trigger) == <<trigger.folder[1]>>

\* storage.py filter_files: keys under the prefix whose name ends with suffix
filter_files(store, prefix, suffix) ==
  {k \in store : IsPrefixOf(prefix, k.folder) /\ EndsWith(k.rest, suffix)}

\* storage.py upload_gcs_file: if_generation_match = None if overwrite else 0;
\* the upload is accepted unless the precondition "object absent" fails
UploadAccepted_Overwrite(store, key, overwrite) == TRUE

UploadAccepted(store, key, overwrite) == overwrite \/ key \notin store

(***************************************************************************)
(* Fan-in: the workers of one run and their trigger files.                 *)
(* Worker 0 is the invocation that analyses the un-chunked input directly  *)
(* (process_video / _process_video_with_audio call it when size == 1);     *)
(* workers 1..total are the invocations triggered by the uploaded chunk    *)
(* files or by the per-variant render requests.                            *)
(***************************************************************************)
Scenarios == {"video_input", "video_chunks", "audio_input", "audio_chunks",
              "render"}

IsVideo(sc) == sc \in {"video_input", "video_chunks"}
IsAudio(sc) == sc \in {"audio_input", "audio_chunks"}

\* _get_video_chunks / _get_audio_chunks: the number of chunks a run can have.
\* An over-limit video can end with a single chunk (the zero-length second cut
\* is discarded, or the first stream copy already covers the duration); an
\* over-limit audio file is cut at duration_limit < duration, so it has >= 2.
Totals(sc) ==
  CASE sc \in {"video_input", "audio_input"} -> {1}
    [] sc = "video_chunks" -> 1..MaxTotal
    [] sc = "audio_chunks" -> 2..MaxTotal
    [] sc = "render" -> 1..MaxTotal

\* process_video / _process_video_with_audio: upload of the chunk directory
\* (one analysis invocation per uploaded chunk) and `if size == 1: extract_*`
\* on the input itself; Combiner.initial_render: one request per variant
Workers(sc, n) ==
  CASE sc \in {"video_input", "audio_input"} -> {0}
    [] sc = "video_chunks" -> (1..n) \cup (IF n = 1 THEN {0} ELSE {})
    [] sc = "audio_chunks" -> 1..n
    [] sc = "render" -> 1..n

TriggerOf(sc, n, w) ==
  CASE IsVideo(sc) /\ w = 0 -> Key(RootFolder, 0, 0, INPUT_FILENAME \o <<".mp4">>)
    [] IsAudio(sc) /\ w = 0 -> Key(RootFolder, 0, 0, INPUT_FILENAME \o <<".wav">>)
    [] IsVideo(sc) /\ w > 0 ->
         Key(ChunksFolder, w, n,
             INPUT_EXTRACTION_VIDEO_FILENAME_SUFFIX \o <<".mp4">>)
    [] IsAudio(sc) /\ w > 0 ->
         Key(ChunksFolder, w, n,
             INPUT_EXTRACTION_AUDIO_FILENAME_SUFFIX \o <<".wav">>)
    [] sc = "render" -> Key(CombosFolder, w, n, <<"_">> \o INPUT_RENDERING_FILE)

\* TriggerFile.file_name: the name without its extension (the last token)
FileName(trigger) == SubSeq(trigger.rest, 1, Len(trigger.rest) - 1)

\* str.replace(role_suffix, '') on the file name
WithoutRole(name, role) ==
  IF EndsWith(name, role) THEN SubSeq(name, 1, Len(name) - Len(role)) ELSE name

(***************************************************************************)
(* extractor/video_extractor.py                                            *)
(***************************************************************************)
\* extract_video: is_chunk
video_is_chunk(trigger) ==
  \E i \in 1..Len(trigger.folder) : trigger.folder[i] = OUTPUT_ANALYSIS_CHUNKS_DIR

\* extract_video: the analysis output object written by analyse_video
video_artifact(trigger) ==
  IF video_is_chunk(trigger)
    THEN Key(GcsFolder(trigger), trigger.idx, trigger.tot,
             FileName(trigger) \o <<"_">> \o OUTPUT_ANALYSIS_FILE)
    ELSE Key(GcsFolder(trigger), 0, 0, OUTPUT_ANALYSIS_FILE)

\* extract_video: total_count passed to _check_finalise_extract_video
video_total_count(trigger) ==
  IF trigger.idx = 0
       /\ WithoutRole(FileName(trigger), INPUT_EXTRACTION_VIDEO_FILENAME_SUFFIX)
            = INPUT_FILENAME
    THEN 1
    ELSE trigger.tot

\* _check_finalise_extract_video: analysed_count
video_analysed_count(store, gcs_folder) ==
  Cardinality(filter_files(store, gcs_folder, OUTPUT_ANALYSIS_FILE))

\* _check_finalise_extract_video: `if analysed_count == total_count`
video_ready_AtLeast(analysed_count, total_count) == analysed_count >= total_count

video_ready(analysed_count, total_count) == analysed_count = total_count

\* _check_finalise_extract_video: destination_file_name of the marker
video_marker(total_count, gcs_folder) ==
  Key(IF total_count > 1 THEN gcs_folder
                         ELSE gcs_folder \o <<OUTPUT_ANALYSIS_CHUNKS_DIR>>,
      total_count, total_count,
      <<"_">> \o INPUT_EXTRACTION_FINALISE_VIDEO_FILE)

(***************************************************************************)
(* extractor/audio_extractor.py                                            *)
(***************************************************************************)
\* extract_audio: is_chunk
audio_is_chunk(trigger) ==
  \E i \in 1..Len(trigger.rest) :
    <<trigger.rest[i]>> = INPUT_EXTRACTION_AUDIO_FILENAME_SUFFIX

\* extract_audio: audio_id, as the tokens that follow "{index}-{total}"
audio_id(trigger) ==
  WithoutRole(FileName(trigger), INPUT_EXTRACTION_AUDIO_FILENAME_SUFFIX)

\* extract_audio: the objects uploaded from tmp_dir to the root folder
audio_artifacts(trigger) ==
  LET dir == GcsRootFolder(trigger) \o <<OUTPUT_ANALYSIS_CHUNKS_DIR>>
  IN { Key(dir, trigger.idx, trigger.tot,
           audio_id(trigger) \o <<"_">> \o OUTPUT_TRANSCRIPT_FILE),
       Key(dir, trigger.idx, trigger.tot,
           audio_id(trigger) \o <<"_">> \o OUTPUT_LANGUAGE_INFO_FILE) }

\* extract_audio: total_count passed to _check_finalise_extract_audio
audio_total_count(trigger) ==
  IF trigger.idx = 0 /\ audio_id(trigger) = INPUT_FILENAME THEN 1
                                                           ELSE trigger.tot

\* _check_finalise_extract_audio: analysed_count
audio_analysed_count(store, gcs_folder, skip_analysis) ==
  IF skip_analysis THEN 1
  ELSE Cardinality(filter_files(store, gcs_folder, OUTPUT_TRANSCRIPT_FILE))

\* _check_finalise_extract_audio: `if analysed_count == total_count`
audio_ready(analysed_count, total_count) == analysed_count = total_count

\* _check_finalise_extract_audio: destination_file_name of the marker
audio_marker(total_count, gcs_folder) ==
  Key(IF total_count > 1 THEN gcs_folder
                         ELSE gcs_folder \o <<OUTPUT_ANALYSIS_CHUNKS_DIR>>,
      total_count, total_count,
      <<"_">> \o INPUT_EXTRACTION_FINALISE_AUDIO_FILE)

(***************************************************************************)
(* combiner/combiner.py                                                    *)
(***************************************************************************)
\* Combiner.render: {variant_id}_combos.json, variant_id = "{index}-{total}"
render_artifact(trigger) ==
  Key(GcsFolder(trigger), trigger.idx, trigger.tot,
      <<"_">> \o OUTPUT_COMBINATIONS_FILE)

\* Combiner.render: variants_count = int(variant_id.split('-')[1])
render_variants_count(trigger) == trigger.tot

\* Combiner.check_finalise_render: rendered_count
render_rendered_count(store, gcs_folder) ==
  Cardinality(filter_files(store, gcs_folder, OUTPUT_COMBINATIONS_FILE))

\* Combiner.check_finalise_render: `if rendered_count == variants_count`
render_ready_AtLeast(rendered_count, variants_count) ==
  rendered_count >= variants_count

render_ready_OffByOne(rendered_count, variants_count) ==
  rendered_count + 1 >= variants_count

render_ready(rendered_count, variants_count) == rendered_count = variants_count

\* Combiner.check_finalise_render: destination_file_name of the marker
render_marker(variants_count, gcs_folder) ==
  Key(gcs_folder, variants_count, variants_count,
      <<"_">> \o INPUT_RENDERING_FINALISE_FILE)

\* Combiner.finalise_render: the aggregate combos.json
render_aggregate(gcs_folder) == Key(gcs_folder, 0, 0, OUTPUT_COMBINATIONS_FILE)

(***************************************************************************)
(* The invocation of worker w, stage by stage.                             *)
(***************************************************************************)
Trigger(w) == TriggerOf(scenario, total, w)

\* objects the worker uploads when its analysis / render has completed
ArtifactsOf(w) ==
  CASE IsVideo(scenario) -> {video_artifact(Trigger(w))}
    [] IsAudio(scenario) -> audio_artifacts(Trigger(w))
    [] scenario = "render" -> {render_artifact(Trigger(w))}

\* the artifact the fan-in check of this kind counts
CompletionArtifact(w) ==
  CASE IsVideo(scenario) -> video_artifact(Trigger(w))
    [] IsAudio(scenario) ->
         CHOOSE k \in audio_artifacts(Trigger(w)) :
           EndsWith(k.rest, OUTPUT_TRANSCRIPT_FILE)
    [] scenario = "render" -> render_artifact(Trigger(w))

TotalCountOf(w) ==
  CASE IsVideo(scenario) -> video_total_count(Trigger(w))
    [] IsAudio(scenario) -> audio_total_count(Trigger(w))
    [] scenario = "render" -> render_variants_count(Trigger(w))

CountOf(store, w) ==
  CASE IsVideo(scenario) -> video_analysed_count(store, GcsFolder(Trigger(w)))
    [] IsAudio(scenario) ->
         audio_analysed_count(store, GcsFolder(Trigger(w)), FALSE)
    [] scenario = "render" ->
         render_rendered_count(store, GcsFolder(Trigger(w)))

ReadyOf(w, count) ==
  CASE IsVideo(scenario) -> video_ready(count, TotalCountOf(w))
    [] IsAudio(scenario) -> audio_ready(count, TotalCountOf(w))
    [] scenario = "render" -> render_ready(count, TotalCountOf(w))

MarkerOf(w) ==
  CASE IsVideo(scenario) -> video_marker(TotalCountOf(w), GcsFolder(Trigger(w)))
    [] IsAudio(scenario) -> audio_marker(TotalCountOf(w), GcsFolder(Trigger(w)))
    [] scenario = "render" ->
         render_marker(TotalCountOf(w), GcsFolder(Trigger(w)))

WorkerSet == Workers(scenario, total)

\* the siblings of w: the workers whose checks write the same marker
Siblings(w) == {v \in WorkerSet : MarkerOf(v) = MarkerOf(w)}

FanInit ==
  /\ scenario \in Scenarios
  /\ total \in Totals(scenario)
  /\ storage = {TriggerOf(scenario, total, w) : w \in Workers(scenario, total)}
  /\ pc = [w \in Workers(scenario, total) |-> "start"]
  /\ listed = [w \in Workers(scenario, total) |-> NoCount]
  /\ uploadCalls = [w \in Workers(scenario, total) |-> 0]
  /\ created = [w \in Workers(scenario, total) |-> FALSE]
  /\ finaliser = "idle"

\* extract_video / extract_audio / Combiner.render up to the upload of the
\* completion artifact (analyse_video output, upload_gcs_dir of the results)
Complete(w) ==
  /\ pc[w] = "start"
  /\ storage' = storage \cup ArtifactsOf(w)
  /\ pc' = [pc EXCEPT ![w] = "uploaded"]
  /\ UNCHANGED <<scenario, total, listed, uploadCalls, created, finaliser>>
  /\ UNCHANGED otherThanFan

\* the analysis or render raises (media tool, API): the invocation ends
\* before any artifact is uploaded; nothing retries it
Fail(w) ==
  /\ pc[w] = "start"
  /\ pc' = [pc EXCEPT ![w] = "failed"]
  /\ UNCHANGED <<scenario, total, storage, listed, uploadCalls, created,
                 finaliser>>
  /\ UNCHANGED otherThanFan

\* _check_finalise_*: the listing (StorageService.filter_files)
List(w) ==
  /\ pc[w] = "uploaded"
  /\ listed' = [listed EXCEPT ![w] = CountOf(storage, w)]
  /\ pc' = [pc EXCEPT ![w] = "listed"]
  /\ UNCHANGED <<scenario, total, storage, uploadCalls, created, finaliser>>
  /\ UNCHANGED otherThanFan

\* _check_finalise_*: the comparison and, on a match, upload_gcs_file of the
\* marker with the default overwrite=False; a failed precondition raises
Finalise(w) ==
  /\ pc[w] = "listed"
  /\ IF ReadyOf(w, listed[w])
       THEN /\ uploadCalls' = [uploadCalls EXCEPT ![w] = @ + 1]
            /\ IF UploadAccepted(storage, MarkerOf(w), FALSE)
                 THEN /\ storage' = storage \cup {MarkerOf(w)}
                      /\ created' = [created EXCEPT ![w] = TRUE]
                      /\ pc' = [pc EXCEPT ![w] = "done"]
                 ELSE /\ pc' = [pc EXCEPT ![w] = "raised"]
                      /\ UNCHANGED <<storage, created>>
       ELSE /\ pc' = [pc EXCEPT ![w] = "done"]
            /\ UNCHANGED <<storage, uploadCalls, created>>
  /\ UNCHANGED <<scenario, total, listed, finaliser>>
  /\ UNCHANGED otherThanFan

\* Combiner.finalise_render, triggered by the creation of the render marker:
\* merges the per-variant files and uploads the aggregate combos.json
FinaliseRender ==
  /\ scenario = "render"
  /\ finaliser = "idle"
  /\ render_marker(total, CombosFolder) \in storage
  /\ IF UploadAccepted(storage, render_aggregate(CombosFolder), FALSE)
       THEN /\ storage' = storage \cup {render_aggregate(CombosFolder)}
            /\ finaliser' = "done"
       ELSE /\ finaliser' = "raised"
            /\ UNCHANGED storage
  /\ UNCHANGED <<scenario, total, pc, listed, uploadCalls, created>>
  /\ UNCHANGED otherThanFan

FanNext ==
  \/ \E w \in WorkerSet : Complete(w)
  \/ \E w \in WorkerSet : Fail(w)
  \/ \E w \in WorkerSet : List(w)
  \/ \E w \in WorkerSet : Finalise(w)
  \/ FinaliseRender

FanInSpecInit == FanInit /\ IdleExceptFan

FanInSpec == FanInSpecInit /\ [][FanNext]_vars

(***************************************************************************)
(* Fan-in properties                                                       *)
(***************************************************************************)
Finished(w) == pc[w] \in {"done", "raised"}

ObservedAll(w) == listed[w] = TotalCountOf(w)

\* C1: a fan-in check calls the marker upload exactly once if the number of
\* completion artifacts it listed under its prefix equals the expected total,
\* and then the marker exists; with any other count (smaller or larger) it
\* makes no upload call and creates nothing.
C1_WritesIffCountEqualsTotal ==
  \A w \in WorkerSet :
    Finished(w) =>
      /\ uploadCalls[w] = (IF ObservedAll(w) THEN 1 ELSE 0)
      /\ ObservedAll(w) => MarkerOf(w) \in storage
      /\ ~ObservedAll(w) => (~created[w] /\ pc[w] = "done")

\* C1 witness: one check saw exactly N and created the marker, another check
\* of the same run saw more than N and finished without an upload call
C1_Witness ==
  \E w, v \in WorkerSet :
    /\ Finished(w) /\ ObservedAll(w) /\ created[w]
    /\ Finished(v) /\ listed[v] > TotalCountOf(v) /\ uploadCalls[v] = 0

C3_MarkerAfterAllFinished ==
  \A w \in WorkerSet :
    (\A v \in Siblings(w) : Finished(v)) => MarkerOf(w) \in storage

\* C4: the marker of a fan-in exists only if the completion artifacts of all
\* its N sibling workers exist, and it does not exist in any state in which a
\* sibling has failed before producing its artifact.
C4_MarkerOnlyWithAllArtifacts ==
  \A w \in WorkerSet :
    /\ MarkerOf(w) \in storage =>
         /\ \A v \in Siblings(w) : CompletionArtifact(v) \in storage
         /\ Cardinality({CompletionArtifact(v) : v \in Siblings(w)})
              = TotalCountOf(w)
    /\ (\E v \in Siblings(w) : pc[v] = "failed") => MarkerOf(w) \notin storage

\* C4 witness: one of several siblings failed, all the others finished their
\* checks, and the fan-in is stalled without a marker
C4_Witness ==
  \E w \in WorkerSet :
    /\ pc[w] = "failed"
    /\ Cardinality(Siblings(w)) > 1
    /\ \A v \in Siblings(w) \ {w} : pc[v] = "done" /\ listed[v] = total - 1
    /\ MarkerOf(w) \notin storage


\* ---------------------------------------------------------------------------
\* Segment tables: the optimiser (extractor.py) and the splitter
\* ---------------------------------------------------------------------------

\* str(int): the decimal digits of a non-negative number, as a sequence
RECURSIVE StrOf(_)
StrOf(n) == IF n < 10 THEN <<n>> ELSE StrOf(n \div 10) \o <<n % 10>>

\* int(str) of a digit string
RECURSIVE IntOf(_)
IntOf(part) ==
  IF Len(part) = 0 THEN 0
  ELSE 10 * IntOf(SubSeq(part, 1, Len(part) - 1)) + part[Len(part)]

\* a segment id is the sequence of its '.'-separated parts: '4.10' is
\* << <<4>>, <<1, 0>> >>
SegmentId(n) == << StrOf(n) >>

\* f'{av_segment_id}.{n}'
SubSegmentId(av_segment_id, n) == Append(av_segment_id, StrOf(n))

MinOf(S) == CHOOSE x \in S : \A y \in S : x <= y

MaxOf(S) == CHOOSE x \in S : \A y \in S : x >= y

Range(seq) == {seq[i] : i \in DOMAIN seq}

\* the shot annotations a video analysis can return
RawShot == {[start |-> a, end |-> b] : a \in 0..MaxTime, b \in 0..MaxTime}

\* shot detection cuts the video into shots that do not overlap; it may leave
\* gaps between them and report shots of no duration
DisjointShots(annotations) ==
  \A i, j \in DOMAIN annotations :
    i # j => \/ annotations[i].end <= annotations[j].start
             \/ annotations[j].end <= annotations[i].start

ShotAnnotations ==
  {a \in UNION {[1..n -> {r \in RawShot : r.start <= r.end}] : n \in 0..MaxShots} :
     DisjointShots(a)}

\* the transcription dataframes: ids 1..n, utterances in time order
IsTranscript(t) ==
  /\ \A i \in DOMAIN t : t[i].audio_segment_id = i /\ t[i].start_s < t[i].end_s
  /\ \A i \in DOMAIN t : i > 1 => t[i - 1].end_s <= t[i].start_s

Utterance ==
  {[audio_segment_id |-> i, start_s |-> a, end_s |-> b] :
     i \in 1..MaxUtterances, a \in 0..MaxTime, b \in 0..MaxTime}

Transcriptions ==
  {t \in UNION {[1..n -> Utterance] : n \in 0..MaxUtterances} : IsTranscript(t)}

_identify_segments(start_time, end_time, data) ==
  LET hit(u) == \/ (u.start_s <= start_time /\ u.end_s > start_time)
                \/ (u.start_s >= start_time /\ u.start_s < end_time)
      result == SelectSeq(data, hit)
  IN  [i \in DOMAIN result |-> result[i].audio_segment_id]

\* the orders in which sort_values(by='start_s') can leave the rows: the
\* default sort is not stable, rows with equal keys come out in any order
RECURSIVE sort_values(_, _)
sort_values(rows, idx) ==
  IF idx = {} THEN {<<>>}
  ELSE UNION {{<<rows[i]>> \o rest : rest \in sort_values(rows, idx \ {i})} :
              i \in {j \in idx : \A k \in idx : rows[j].start_s <= rows[k].start_s}}

\* the mutant keeps the rows in insertion order
shots_in_order_Unsorted(shots_data) == {shots_data}

shots_in_order(shots_data) == sort_values(shots_data, DOMAIN shots_data)

ShotRow(i, shot, transcription) ==
  [shot_id |-> i,
   audio_segment_ids |-> _identify_segments(shot.start, shot.end, transcription),
   start_s |-> shot.start,
   end_s |-> shot.end,
   duration_s |-> shot.end - shot.start]

RECURSIVE shots_data(_, _, _)
shots_data(annotations, transcription, n) ==
  IF n = 0 THEN <<>>
  ELSE LET before == shots_data(annotations, transcription, n - 1)
           shot == annotations[n]
       IN  IF shot.end - shot.start > 0
           THEN Append(before, ShotRow(n, shot, transcription))
           ELSE before

get_visual_shots_data(annotations, transcription) ==
  shots_in_order(shots_data(annotations, transcription, Len(annotations)))


\* one row of optimised_av_segments, built from the shots collected so far
OptimisedRow(index, current_visual_segments, current_audio_segment_ids) ==
  LET start == MinOf({current_visual_segments[k].start_s :
                        k \in DOMAIN current_visual_segments})
      end == MaxOf({current_visual_segments[k].end_s :
                      k \in DOMAIN current_visual_segments})
  IN  [av_segment_id |-> SegmentId(index + 1),
       visual_segment_ids |-> [k \in DOMAIN current_visual_segments |->
                                 current_visual_segments[k].shot_id],
       audio_segment_ids |-> current_audio_segment_ids,
       start_s |-> start,
       end_s |-> end,
       duration_s |-> end - start]

SHORT_SHOT_S == 1

\* the mutant takes every silent shot for a short one
silent_short_shot_AnyDuration(visual_segment) ==
  Len(visual_segment.audio_segment_ids) = 0

silent_short_shot(visual_segment) ==
  /\ Len(visual_segment.audio_segment_ids) = 0
  /\ visual_segment.duration_s <= SHORT_SHOT_S

\* the mutant merges a short silent shot into whatever came before it
joins_current_AnySilentShort(visual_segment, sweep) ==
  \/ Range(visual_segment.audio_segment_ids) \cap sweep.current_audio_segment_ids # {}
  \/ sweep.current_visual_segments = <<>>
  \/ silent_short_shot(visual_segment)

joins_current(visual_segment, sweep) ==
  \/ Range(visual_segment.audio_segment_ids) \cap sweep.current_audio_segment_ids # {}
  \/ sweep.current_visual_segments = <<>>
  \/ /\ silent_short_shot(visual_segment)
     /\ sweep.current_audio_segment_ids = {}
     /\ sweep.is_last_shot_short

\* the loop of _create_optimised_av_segments after its first n iterations
RECURSIVE optimiser_sweep(_, _)
optimiser_sweep(shots_dataframe, n) ==
  IF n = 0
  THEN [optimised_av_segments |-> <<>>,
        current_audio_segment_ids |-> {},
        current_visual_segments |-> <<>>,
        index |-> 0,
        is_last_shot_short |-> FALSE]
  ELSE LET sweep == optimiser_sweep(shots_dataframe, n - 1)
           visual_segment == shots_dataframe[n]
           audio_segment_ids == Range(visual_segment.audio_segment_ids)
       IN  IF joins_current(visual_segment, sweep)
           THEN [sweep EXCEPT
                   !.current_visual_segments = Append(@, visual_segment),
                   !.current_audio_segment_ids = @ \cup audio_segment_ids,
                   !.is_last_shot_short = silent_short_shot(visual_segment)]
           ELSE [optimised_av_segments |->
                   Append(sweep.optimised_av_segments,
                          OptimisedRow(sweep.index, sweep.current_visual_segments,
                                       sweep.current_audio_segment_ids)),
                 current_audio_segment_ids |-> audio_segment_ids,
                 current_visual_segments |-> <<visual_segment>>,
                 index |-> sweep.index + 1,
                 is_last_shot_short |-> silent_short_shot(visual_segment)]

\* min() of an empty list raises ValueError when there is no shot at all
optimiser_raises(shots_dataframe) == Len(shots_dataframe) = 0

\* the mutant returns the table without the rows of the last run of shots
_create_optimised_av_segments_NoLastRow(shots_dataframe) ==
  optimiser_sweep(shots_dataframe, Len(shots_dataframe)).optimised_av_segments

_create_optimised_av_segments(shots_dataframe) ==
  LET sweep == optimiser_sweep(shots_dataframe, Len(shots_dataframe))
  IN  Append(sweep.optimised_av_segments,
             OptimisedRow(sweep.index, sweep.current_visual_segments,
                          sweep.current_audio_segment_ids))


\* grouped_markers: the marker ids in order of first appearance
RECURSIVE grouped_ids(_, _)
grouped_ids(av_segment_markers, n) ==
  IF n = 0 THEN <<>>
  ELSE LET before == grouped_ids(av_segment_markers, n - 1)
           id == av_segment_markers[n].av_segment_id
       IN  IF id \in Range(before) THEN before ELSE Append(before, id)

grouped_markers(av_segment_markers, av_segment_id) ==
  SelectSeq(av_segment_markers, LAMBDA m : m.av_segment_id = av_segment_id)

\* av_segments.loc[av_segments['av_segment_id'] == id, 'av_segment_id'] = new_id
rename_rows(av_segments, id, new_id) ==
  [r \in DOMAIN av_segments |->
     IF av_segments[r].av_segment_id = id
     THEN [av_segments[r] EXCEPT !.av_segment_id = new_id]
     ELSE av_segments[r]]

\* the mutant leaves the flag of the row that is cut as it was
cut_rows_NoFlag(av_segments, id, marker_cut_time_s, current_start_s) ==
  [r \in DOMAIN av_segments |->
     IF av_segments[r].av_segment_id = id
     THEN [av_segments[r] EXCEPT !.end_s = marker_cut_time_s,
                                 !.duration_s = marker_cut_time_s - current_start_s]
     ELSE av_segments[r]]

\* the three .loc assignments that end the rows with the id at the cut
cut_rows(av_segments, id, marker_cut_time_s, current_start_s) ==
  [r \in DOMAIN av_segments |->
     IF av_segments[r].av_segment_id = id
     THEN [av_segments[r] EXCEPT !.end_s = marker_cut_time_s,
                                 !.duration_s = marker_cut_time_s - current_start_s,
                                 !.cut = TRUE]
     ELSE av_segments[r]]

FirstWhere(av_segments, id) ==
  av_segments[MinOf({r \in DOMAIN av_segments : av_segments[r].av_segment_id = id})]

\* the mutant ends every new row at its own cut
new_row_end_s_AtCut(row_to_split, markers, i, marker_cut_time_s) ==
  marker_cut_time_s

\* the new row ends at the cut, the one of the last marker at the end of the
\* segment that is split
new_row_end_s(row_to_split, markers, i, marker_cut_time_s) ==
  IF i = Len(markers) - 1 THEN row_to_split.end_s ELSE marker_cut_time_s

\* the mutant measures the next marker from the cut just made
next_current_start_s_AtCut(markers, i, marker_cut_time_s, current_start_s) ==
  marker_cut_time_s

\* current_start_s = marker_cut_time_s if i == len(markers) - 1 else
\* current_start_s
next_current_start_s(markers, i, marker_cut_time_s, current_start_s) ==
  IF i = Len(markers) - 1 THEN marker_cut_time_s ELSE current_start_s

\* the marker loop of one segment after its first n markers
RECURSIVE split_loop(_, _, _, _, _)
split_loop(av_segments, row_to_split, av_segment_id, markers, n) ==
  IF n = 0
  THEN [av_segments |->
          rename_rows(av_segments, av_segment_id, SubSegmentId(av_segment_id, 1)),
        current_segment_id |-> SubSegmentId(av_segment_id, 1),
        current_start_s |-> row_to_split.start_s]
  ELSE LET loop == split_loop(av_segments, row_to_split, av_segment_id,
                              markers, n - 1)
           i == n - 1
           marker_cut_time_s ==
             markers[n].marker_cut_time_s + loop.current_start_s
           row_end_s ==
             new_row_end_s(row_to_split, markers, i, marker_cut_time_s)
           new_row_id == SubSegmentId(av_segment_id, i + 2)
           new_row ==
             [av_segment_id |-> new_row_id,
              visual_segment_ids |-> row_to_split.visual_segment_ids,
              audio_segment_ids |-> row_to_split.audio_segment_ids,
              start_s |-> marker_cut_time_s,
              end_s |-> row_end_s,
              duration_s |-> row_end_s - marker_cut_time_s,
              cut |-> TRUE]
       IN  [av_segments |->
              Append(cut_rows(loop.av_segments, loop.current_segment_id,
                              marker_cut_time_s, loop.current_start_s),
                     new_row),
            current_segment_id |-> new_row_id,
            current_start_s |->
              next_current_start_s(markers, i, marker_cut_time_s,
                                   loop.current_start_s)]

\* the outer loop of _finalise_split after the first n marker groups
RECURSIVE split_groups(_, _, _)
split_groups(av_segments, av_segment_markers, n) ==
  IF n = 0
  THEN [r \in DOMAIN av_segments |->
          [av_segment_id |-> av_segments[r].av_segment_id,
           visual_segment_ids |-> av_segments[r].visual_segment_ids,
           audio_segment_ids |-> av_segments[r].audio_segment_ids,
           start_s |-> av_segments[r].start_s,
           end_s |-> av_segments[r].end_s,
           duration_s |-> av_segments[r].duration_s,
           cut |-> FALSE]]
  ELSE LET before == split_groups(av_segments, av_segment_markers, n - 1)
           ids == grouped_ids(av_segment_markers, Len(av_segment_markers))
           av_segment_id == ids[n]
           markers == grouped_markers(av_segment_markers, av_segment_id)
       IN  IF \A r \in DOMAIN before : before[r].av_segment_id # av_segment_id
           THEN before
           ELSE split_loop(before, FirstWhere(before, av_segment_id),
                           av_segment_id, markers, Len(markers)).av_segments

\* the mutant keeps the durations written inside the marker loop
recompute_duration_Keep(av_segments) == av_segments

\* av_segments['duration_s'] = av_segments['end_s'] - av_segments['start_s']
recompute_duration(av_segments) ==
  [r \in DOMAIN av_segments |->
     [av_segments[r] EXCEPT !.duration_s =
        av_segments[r].end_s - av_segments[r].start_s]]

\* the mutant returns the rows in the order the loop left them
split_in_order_Unsorted(av_segments) == {av_segments}

split_in_order(av_segments) == sort_values(av_segments, DOMAIN av_segments)

\* the tables _finalise_split can return
_finalise_split(av_segments, av_segment_markers) ==
  split_in_order(recompute_duration(
    split_groups(av_segments, av_segment_markers,
                 Len(grouped_ids(av_segment_markers, Len(av_segment_markers))))))


\* pd.read_json of presplit_data.json followed by astype(str): the ids of a
\* freshly extracted table are whole numbers, read as integers and printed
\* again ('.0' does not occur in them)
read_av_segment_id(av_segment_id) == << StrOf(IntOf(av_segment_id[1])) >>

read_av_segments(table) ==
  [r \in DOMAIN table |->
     [table[r] EXCEPT !.av_segment_id = read_av_segment_id(@)]]

\* the split requests: up to MaxMarkers markers, each naming a segment of the
\* table or a segment that does not exist
AbsentId == SegmentId(MaxShots + 1)

Markers(table) ==
  {[av_segment_id |-> id, marker_cut_time_s |-> t] :
     id \in {table[r].av_segment_id : r \in DOMAIN table} \cup {AbsentId},
     t \in 0..MaxTime}

SplitRequests(table) ==
  UNION {[1..n -> Markers(table)] : n \in 1..MaxMarkers}

SegInit ==
  /\ rawShots \in ShotAnnotations
  /\ utterances \in Transcriptions
  /\ shots = <<>> /\ avSegments = <<>> /\ presplit = <<>> /\ splitMarkers = <<>>
  /\ segPc = "analysed"
  /\ IdleExceptSeg

\* Extractor.finalise_extraction via _create_optimised_segments, for a video
\* with at least one shot of positive duration
finalise_extraction ==
  /\ segPc = "analysed"
  /\ \E shots_dataframe \in get_visual_shots_data(rawShots, utterances) :
       /\ ~optimiser_raises(shots_dataframe)
       /\ shots' = shots_dataframe
       /\ avSegments' = _create_optimised_av_segments(shots_dataframe)
  /\ segPc' = "segments"
  /\ UNCHANGED <<rawShots, utterances, presplit, splitMarkers, otherThanSeg>>

\* the same when no shot is left: min() raises and no table is produced
finalise_extraction_raises ==
  /\ segPc = "analysed"
  /\ \E shots_dataframe \in get_visual_shots_data(rawShots, utterances) :
       /\ optimiser_raises(shots_dataframe)
       /\ shots' = shots_dataframe
  /\ segPc' = "raised"
  /\ UNCHANGED <<rawShots, utterances, avSegments, presplit, splitMarkers, otherThanSeg>>

\* Extractor.split_av_segment: a later invocation that reads the table and the
\* markers from storage; the analysis inputs are not in its scope
split_av_segment ==
  /\ segPc = "segments"
  /\ \E av_segment_markers \in SplitRequests(avSegments) :
       /\ splitMarkers' = av_segment_markers
       /\ presplit' = read_av_segments(avSegments)
       /\ avSegments' \in _finalise_split(read_av_segments(avSegments),
                                          av_segment_markers)
  /\ rawShots' = <<>> /\ utterances' = <<>> /\ shots' = <<>>
  /\ segPc' = "split"
  /\ UNCHANGED otherThanSeg

SegNext ==
  \/ finalise_extraction
  \/ finalise_extraction_raises
  \/ split_av_segment

SegSpec == SegInit /\ [][SegNext]_vars


\* ---------------------------------------------------------------------------
\* Properties of the segment tables
\* ---------------------------------------------------------------------------

SortedByStart(table) ==
  \A i \in DOMAIN table : i > 1 => table[i - 1].start_s <= table[i].start_s

Contiguous(table) ==
  \A i \in DOMAIN table : i > 1 => table[i - 1].end_s = table[i].start_s

NonOverlapping(table) ==
  \A i, j \in DOMAIN table : i < j => table[i].end_s <= table[j].start_s

\* the union of the spans of the rows, as the set of unit intervals covered
SpanUnion(table) ==
  {x \in 0..(MaxTime - 1) :
     \E i \in DOMAIN table : table[i].start_s <= x /\ x < table[i].end_s}

Optimised == segPc = "segments"

\* C5 as stated: for every non-empty input the optimiser's segments are sorted
\* ascending by start_s, contiguous, and cover exactly what the input shots
\* cover. Shots with a gap between them refute it.
C5_SortedContiguousSameSpan ==
  Optimised =>
    /\ SortedByStart(avSegments)
    /\ Contiguous(avSegments)
    /\ SpanUnion(avSegments) = SpanUnion(shots)

\* C5 amended: the optimiser's segments are always sorted ascending by
\* start_s; they are contiguous and cover exactly what the input shots cover
\* whenever the input shots, in start order, are themselves contiguous.
C5_SortedAndContiguousIfShotsAre ==
  Optimised =>
    /\ SortedByStart(avSegments)
    /\ Contiguous(shots) =>
         /\ Contiguous(avSegments)
         /\ SpanUnion(avSegments) = SpanUnion(shots)

C5_Witness ==
  /\ Optimised
  /\ Len(shots) = MaxShots /\ Contiguous(shots)
  /\ Len(avSegments) > 1

\* the places where a shot id occurs in the visual_segment_ids of the table
Occurrences(table, shot_id) ==
  {<<r, k>> \in (DOMAIN table) \X (1..MaxShots + 1) :
     k \in DOMAIN table[r].visual_segment_ids
       /\ table[r].visual_segment_ids[k] = shot_id}

\* C6: every input shot is in the visual_segment_ids of exactly one segment
\* of the optimiser's output, listed there once, and the output names no
\* other shot.
C6_EveryShotInExactlyOneSegment ==
  Optimised =>
    /\ \A i \in DOMAIN shots :
         Cardinality(Occurrences(avSegments, shots[i].shot_id)) = 1
    /\ \A r \in DOMAIN avSegments :
         Range(avSegments[r].visual_segment_ids)
           \subseteq {shots[i].shot_id : i \in DOMAIN shots}

C6_Witness ==
  /\ Optimised
  /\ Len(shots) > 1
  /\ Len(avSegments) = 1

DurationsConsistent(table) ==
  \A r \in DOMAIN table : table[r].duration_s = table[r].end_s - table[r].start_s

\* C7: duration_s = end_s - start_s in every row the optimiser creates and in
\* every row of the table a split returns, whatever the markers.
C7_DurationIsEndMinusStart ==
  (segPc \in {"segments", "split"}) => DurationsConsistent(avSegments)

C7_Witness ==
  /\ segPc = "split"
  /\ Len(splitMarkers) = 2
  /\ splitMarkers[1].av_segment_id = splitMarkers[2].av_segment_id
  /\ 0 < splitMarkers[1].marker_cut_time_s
  /\ splitMarkers[1].marker_cut_time_s < splitMarkers[2].marker_cut_time_s
  /\ Len(avSegments) = Len(presplit) + 2


HasSplit == segPc = "split"

\* the segments of the table that the split request names
TargetIds ==
  {presplit[r].av_segment_id : r \in DOMAIN presplit}
    \cap {splitMarkers[i].av_segment_id : i \in DOMAIN splitMarkers}

Original(id) == presplit[CHOOSE r \in DOMAIN presplit : presplit[r].av_segment_id = id]

\* the cut times requested for a segment, in the order supplied
CutTimes(id) ==
  LET named == SelectSeq(splitMarkers, LAMBDA m : m.av_segment_id = id)
  IN  [i \in DOMAIN named |-> named[i].marker_cut_time_s]

RowsWithId(id) == {r \in DOMAIN avSegments : avSegments[r].av_segment_id = id}

\* the rows that carry the id of the segment itself or of one of its parts
RowsOf(id) ==
  {r \in DOMAIN avSegments :
     /\ Len(avSegments[r].av_segment_id) >= Len(id)
     /\ SubSeq(avSegments[r].av_segment_id, 1, Len(id)) = id}

SubSegment(id, j) == avSegments[CHOOSE r \in RowsWithId(Append(id, StrOf(j))) : TRUE]

\* k markers leave k+1 rows {id}.1 .. {id}.{k+1} in place of the segment,
\* from the original start to the original end
ReplacedBySubSegments(id) ==
  LET k == Len(CutTimes(id))
  IN  /\ Cardinality(RowsOf(id)) = k + 1
      /\ \A j \in 1..(k + 1) : Cardinality(RowsWithId(Append(id, StrOf(j)))) = 1
      /\ SubSegment(id, 1).start_s = Original(id).start_s
      /\ SubSegment(id, k + 1).end_s = Original(id).end_s

\* each part ends where the next one starts and none ends before it starts
BoundariesIncrease(id) ==
  LET k == Len(CutTimes(id))
  IN  /\ \A j \in 1..(k + 1) : SubSegment(id, j).start_s <= SubSegment(id, j).end_s
      /\ \A j \in 1..k : SubSegment(id, j).end_s = SubSegment(id, j + 1).start_s

BoundariesStrictlyIncrease(id) ==
  /\ BoundariesIncrease(id)
  /\ \A j \in 1..(Len(CutTimes(id)) + 1) :
       SubSegment(id, j).start_s < SubSegment(id, j).end_s

\* the cut times of a segment, taken as offsets from the segment's start, are
\* in order and fall inside the segment
CutsInOrder(id) ==
  LET cuts == CutTimes(id)
  IN  /\ \A i \in DOMAIN cuts : cuts[i] <= Original(id).end_s - Original(id).start_s
      /\ \A i \in DOMAIN cuts : i > 1 => cuts[i - 1] <= cuts[i]

CutsStrictlyInOrder(id) ==
  LET cuts == CutTimes(id)
  IN  /\ \A i \in DOMAIN cuts :
           0 < cuts[i] /\ cuts[i] < Original(id).end_s - Original(id).start_s
      /\ \A i \in DOMAIN cuts : i > 1 => cuts[i - 1] < cuts[i]

\* C8 as stated: a segment split with k markers is replaced by the k+1
\* sub-segments {id}.1 .. {id}.{k+1}, the first starting at the original start,
\* the last ending at the original end, with boundaries that never decrease.
\* Markers out of order or beyond the segment's end refute it.
C8_SplitYieldsIncreasingSubSegments ==
  HasSplit =>
    \A id \in TargetIds : ReplacedBySubSegments(id) /\ BoundariesIncrease(id)

\* C8 amended: a segment split with k markers is replaced by the k+1
\* sub-segments {id}.1 .. {id}.{k+1}, the first starting at the original start
\* and the last ending at the original end; the boundaries increase when the
\* markers' cut times, measured from the original segment's start, are
\* supplied in increasing order and lie within the segment.
C8_SplitYieldsSubSegments ==
  HasSplit =>
    \A id \in TargetIds :
      /\ ReplacedBySubSegments(id)
      /\ CutsInOrder(id) => BoundariesIncrease(id)
      /\ CutsStrictlyInOrder(id) => BoundariesStrictlyIncrease(id)

C8_Witness ==
  /\ HasSplit
  /\ \E id \in TargetIds :
       /\ Len(CutTimes(id)) = 2
       /\ CutsStrictlyInOrder(id)
       /\ Cardinality(RowsOf(id)) = 3

\* C26 as stated: the i-th marker is measured from the cut made by the
\* marker before it, so part i+1 starts at the start of part i plus the i-th
\* cut time
C26_MarkerMeasuredFromPreviousCut ==
  HasSplit =>
    \A id \in TargetIds :
      \A i \in DOMAIN CutTimes(id) :
        SubSegment(id, i + 1).start_s = SubSegment(id, i).start_s + CutTimes(id)[i]

\* C26 as amended: every marker is measured from the start of the segment
\* that is split, so part i ends and part i+1 starts at the original start
\* plus the i-th cut time
C26_MarkerMeasuredFromSegmentStart ==
  HasSplit =>
    \A id \in TargetIds :
      \A i \in DOMAIN CutTimes(id) :
        /\ SubSegment(id, i + 1).start_s = Original(id).start_s + CutTimes(id)[i]
        /\ SubSegment(id, i).end_s = Original(id).start_s + CutTimes(id)[i]

\* a segment split by two markers, the first not at offset 0
C26_Witness ==
  /\ HasSplit
  /\ \E id \in TargetIds :
       /\ Len(CutTimes(id)) = 2
       /\ CutTimes(id)[1] > 0
       /\ SubSegment(id, 3).start_s = Original(id).start_s + CutTimes(id)[2]

\* the rows of the result that are parts of a segment the request names
SplitRows == UNION {RowsOf(id) : id \in TargetIds}

SameButCut(row, original) ==
  /\ row.av_segment_id = original.av_segment_id
  /\ row.visual_segment_ids = original.visual_segment_ids
  /\ row.audio_segment_ids = original.audio_segment_ids
  /\ row.start_s = original.start_s
  /\ row.end_s = original.end_s
  /\ row.duration_s = original.duration_s
  /\ row.cut = FALSE

\* C27: every row no marker names is in the result once, unchanged and with
\* cut = FALSE; the rows with cut = TRUE are exactly the parts of the segments
\* that were split; markers that name no segment of the table leave the table
\* as it was
C27_SplitLeavesUntargetedRows ==
  HasSplit =>
    /\ \A r \in DOMAIN presplit :
         presplit[r].av_segment_id \notin TargetIds =>
           Cardinality({q \in DOMAIN avSegments :
                          SameButCut(avSegments[q], presplit[r])}) = 1
    /\ Len(avSegments) - Cardinality(SplitRows)
         = Cardinality({r \in DOMAIN presplit :
                          presplit[r].av_segment_id \notin TargetIds})
    /\ \A q \in DOMAIN avSegments : avSegments[q].cut <=> q \in SplitRows
    /\ TargetIds = {} =>
         /\ Len(avSegments) = Len(presplit)
         /\ \A r \in DOMAIN presplit : SameButCut(avSegments[r], presplit[r])

\* a table of two segments, one of them split, the other left alone
C27_Witness ==
  /\ HasSplit
  /\ Len(presplit) = 2
  /\ Cardinality(TargetIds) = 1
  /\ Len(avSegments) = 3
  /\ \E q \in DOMAIN avSegments : ~avSegments[q].cut

\* the sort leaves rows with equal start_s in no particular order; with
\* distinct start_s the order of the returned table is determined
DistinctStarts(table) ==
  \A i, j \in DOMAIN table : i # j => table[i].start_s # table[j].start_s

\* C9 as stated: a split at arbitrary marker times preserves the ordering of
\* the table: the rows of a sorted, contiguous, non-overlapping table are
\* again sorted by start_s, contiguous and non-overlapping after the split
\* (stated for results whose order the sort determines). A marker beyond the
\* segment's end refutes it.
C9_SplitPreservesOrdering ==
  (HasSplit /\ SortedByStart(presplit) /\ Contiguous(presplit)
     /\ NonOverlapping(presplit) /\ DistinctStarts(avSegments))
    => /\ SortedByStart(avSegments)
       /\ Contiguous(avSegments)
       /\ NonOverlapping(avSegments)

\* C9 amended: after a split at arbitrary marker times all rows are sorted
\* ascending by start_s; a contiguous, non-overlapping table stays contiguous
\* and non-overlapping when, for every segment split, the markers' cut times
\* measured from that segment's start are strictly increasing and lie
\* strictly inside the segment.
C9_SplitKeepsSortedAndContiguousIfCutsValid ==
  HasSplit =>
    /\ SortedByStart(avSegments)
    /\ (Contiguous(presplit) /\ NonOverlapping(presplit)
          /\ \A id \in TargetIds : CutsStrictlyInOrder(id))
         => Contiguous(avSegments) /\ NonOverlapping(avSegments)

C9_Witness ==
  /\ HasSplit
  /\ Len(presplit) > 1
  /\ Contiguous(presplit) /\ NonOverlapping(presplit)
  /\ TargetIds # {}
  /\ \A id \in TargetIds : CutsStrictlyInOrder(id)
  /\ avSegments[Len(avSegments)].av_segment_id \in
       {presplit[r].av_segment_id : r \in DOMAIN presplit}


\* ---------------------------------------------------------------------------
\* Grouping of a variant's segment ids (combiner.py)
\* ---------------------------------------------------------------------------

\* int() accepts a part only if it has digits
IsNumber(part) == Len(part) > 0

\* current_parts with its last part replaced by str(int(last) + 1)
next_level_parts(current_parts) ==
  [current_parts EXCEPT ![Len(current_parts)] = StrOf(IntOf(@) + 1)]

\* the mutant accepts a split run whatever sub-segment it starts at
is_split_start_Any(current_parts, next_parts) ==
  /\ Len(next_parts) = Len(current_parts) + 1
  /\ SubSeq(next_parts, 1, Len(current_parts)) = next_level_parts(current_parts)

\* next_segment_id == '.'.join(next_level_parts) + '.1'
is_split_start(current_parts, next_parts) ==
  next_parts = Append(next_level_parts(current_parts), StrOf(1))

_is_sequential_segments(current_segment_id, next_segment_id) ==
  LET current_parts == current_segment_id
      next_parts == next_segment_id
  IN  /\ IsNumber(current_parts[Len(current_parts)])
      /\ IF /\ Len(current_parts) = Len(next_parts)
            /\ SubSeq(current_parts, 1, Len(current_parts) - 1)
                 = SubSeq(next_parts, 1, Len(next_parts) - 1)
         THEN /\ IsNumber(next_parts[Len(next_parts)])
              /\ \/ IntOf(next_parts[Len(next_parts)])
                      = IntOf(current_parts[Len(current_parts)]) + 1
                 \/ is_split_start(current_parts, next_parts)
         ELSE is_split_start(current_parts, next_parts)

\* the inner loop: the last index of the run that starts at index j
RECURSIVE run_end(_, _)
run_end(av_segment_ids, j) ==
  IF j < Len(av_segment_ids)
       /\ _is_sequential_segments(av_segment_ids[j], av_segment_ids[j + 1])
  THEN run_end(av_segment_ids, j + 1)
  ELSE j

\* the outer loop from index i on
RECURSIVE group_from(_, _)
group_from(av_segment_ids, i) ==
  IF i > Len(av_segment_ids) THEN <<>>
  ELSE LET j == run_end(av_segment_ids, i)
       IN  << <<av_segment_ids[i], av_segment_ids[j]>> >>
             \o group_from(av_segment_ids, j + 1)

_group_consecutive_segments(av_segment_ids) == group_from(av_segment_ids, 1)

\* the ids a variant can name: whole numbers and the dotted ids splits make
PartValues == {StrOf(n) : n \in (1..MaxPart) \cup {9, 10}}

AvSegmentIds == UNION {[1..d -> PartValues] : d \in 1..MaxDepth}

Id(a) == SegmentId(a)

Sub(a, b) == SubSegmentId(SegmentId(a), b)

\* the lists of the documentation and of combiner_test.py
DocumentedLists ==
  { <<Id(1), Id(2), Id(3), Sub(4, 1), Sub(4, 2), Sub(4, 3), Id(5)>>,
    <<Id(1), Id(2), Id(3), Sub(4, 2), Sub(4, 3), Sub(4, 4), Id(5)>>,
    <<Id(5), Id(1), Id(2), Id(3)>>,
    <<Sub(1, 1), Sub(1, 2), Sub(1, 4), Sub(1, 5), Sub(2, 1)>> }

GrpInit ==
  /\ segmentIds \in
       UNION {[1..n -> AvSegmentIds] : n \in 0..MaxIds} \cup DocumentedLists
  /\ groups = <<>>
  /\ grpPc = "call"
  /\ IdleExceptGrp

group_consecutive_segments ==
  /\ grpPc = "call"
  /\ groups' = _group_consecutive_segments(segmentIds)
  /\ grpPc' = "returned"
  /\ UNCHANGED <<segmentIds, otherThanGrp>>

GrpNext == group_consecutive_segments

GrpSpec == GrpInit /\ [][GrpNext]_vars


\* ---------------------------------------------------------------------------
\* Properties of the grouping
\* ---------------------------------------------------------------------------

Returned == grpPc = "returned"

LastPart(id) == id[Len(id)]

Prefix(id) == SubSeq(id, 1, Len(id) - 1)

\* b follows a: same depth and prefix with the last component one higher as
\* a number, or b is sub-segment 1 of the id that follows a
Follows(a, b) ==
  \/ /\ Len(b) = Len(a)
     /\ Prefix(b) = Prefix(a)
     /\ IntOf(LastPart(b)) = IntOf(LastPart(a)) + 1
  \/ /\ Len(b) = Len(a) + 1
     /\ Prefix(Prefix(b)) = Prefix(a)
     /\ IntOf(LastPart(Prefix(b))) = IntOf(LastPart(a)) + 1
     /\ LastPart(Prefix(b)) = StrOf(IntOf(LastPart(Prefix(b))))
     /\ LastPart(b) = <<1>>

\* the positions at which a maximal run of ids that follow each other starts
RunStarts(ids) ==
  {i \in DOMAIN ids : i = 1 \/ ~Follows(ids[i - 1], ids[i])}

\* the k-th maximal run, as the positions of its first and its last id
RunFirst(ids, k) ==
  CHOOSE i \in RunStarts(ids) : Cardinality({x \in RunStarts(ids) : x < i}) = k - 1

RunLast(ids, k) ==
  IF k = Cardinality(RunStarts(ids)) THEN Len(ids) ELSE RunFirst(ids, k + 1) - 1

MaximalRuns(ids) ==
  [k \in 1..Cardinality(RunStarts(ids)) |->
     <<ids[RunFirst(ids, k)], ids[RunLast(ids, k)]>>]

IsSplitId(id) == Len(id) > 1

\* C10: the grouping returns, in input order, the maximal runs of adjacent ids
\* that follow each other, each as (first id, last id), so that every id lies
\* in exactly one run; a split id is never followed in its run by a non-split
\* id; the documented lists give the documented groups.
C10_GroupsAreMaximalRuns ==
  Returned =>
    /\ groups = MaximalRuns(segmentIds)
    /\ \A i \in DOMAIN segmentIds :
         (i > 1 /\ IsSplitId(segmentIds[i - 1]) /\ ~IsSplitId(segmentIds[i]))
           => \E k \in DOMAIN groups :
                /\ groups[k][1] = segmentIds[i]
                /\ k > 1 /\ groups[k - 1][2] = segmentIds[i - 1]
    /\ segmentIds = <<Id(1), Id(2), Id(3), Sub(4, 1), Sub(4, 2), Sub(4, 3), Id(5)>>
         => groups = << <<Id(1), Sub(4, 3)>>, <<Id(5), Id(5)>> >>
    /\ segmentIds = <<Id(1), Id(2), Id(3), Sub(4, 2), Sub(4, 3), Sub(4, 4), Id(5)>>
         => groups = << <<Id(1), Id(3)>>, <<Sub(4, 2), Sub(4, 4)>>, <<Id(5), Id(5)>> >>
    /\ segmentIds = <<Id(5), Id(1), Id(2), Id(3)>>
         => groups = << <<Id(5), Id(5)>>, <<Id(1), Id(3)>> >>
    /\ segmentIds = <<Sub(1, 1), Sub(1, 2), Sub(1, 4), Sub(1, 5), Sub(2, 1)>>
         => groups = << <<Sub(1, 1), Sub(1, 2)>>, <<Sub(1, 4), Sub(1, 5)>>,
                        <<Sub(2, 1), Sub(2, 1)>> >>

C10_Witness ==
  /\ Returned
  /\ Len(segmentIds) = MaxIds
  /\ segmentIds[1] = Id(9)
  /\ segmentIds[2] = Sub(10, 1)
  /\ Len(groups) = 2


\* ---------------------------------------------------------------------------
\* Render composer: windows, filter graph and commands of one variant
\* ---------------------------------------------------------------------------

\* seconds
CONFIG_DEFAULT_FADE_OUT_DURATION == 1

\* 0.1 seconds, in tenths of a second
CONFIG_DEFAULT_FADE_OUT_BUFFER == 1

\* seconds in the tenths the fade-out constants are given in
Tenths(seconds) == 10 * seconds

OverlayTypes == {"variant_start", "variant_end", "video_start", "video_end"}

Label(name, idx) == [name |-> name, idx |-> idx]

\* one stage of a filter graph: select/aselect of the span from..to of a
\* source, a pad reference of the concat, the concat of n windows, amerge, afade
Stage(stage, src, from, to, out, n) ==
  [stage |-> stage, src |-> src, from |-> from, to |-> to, out |-> out, n |-> n]

\* VideoVariantSegment of each row, in the order of the table
VariantSegments(table) ==
  [r \in DOMAIN table |->
     [av_segment_id |-> table[r].av_segment_id,
      start_s |-> table[r].start_s,
      end_s |-> table[r].end_s]]

\* video_variant.av_segments[id]
SegmentOf(av_segments, id) ==
  av_segments[CHOOSE r \in DOMAIN av_segments : av_segments[r].av_segment_id = id]

shot_timestamps(av_segments) ==
  LET shot_groups ==
        _group_consecutive_segments(
          [r \in DOMAIN av_segments |-> av_segments[r].av_segment_id])
  IN  [g \in DOMAIN shot_groups |->
         <<SegmentOf(av_segments, shot_groups[g][1]).start_s,
           SegmentOf(av_segments, shot_groups[g][2]).end_s>>]

\* the mutant adds up the windows' ends only
RECURSIVE windows_duration_EndsOnly(_, _)
windows_duration_EndsOnly(timestamps, n) ==
  IF n = 0 THEN 0
  ELSE windows_duration_EndsOnly(timestamps, n - 1) + timestamps[n][2]

\* duration += end - start over the first n windows
RECURSIVE windows_duration(_, _)
windows_duration(timestamps, n) ==
  IF n = 0 THEN 0
  ELSE windows_duration(timestamps, n - 1) + (timestamps[n][2] - timestamps[n][1])

\* the mutant leaves out the last window
video_select_filter_DropLast(timestamps) ==
  [i \in 1..(Len(timestamps) - 1) |->
     Stage("select", "0:v", timestamps[i][1], timestamps[i][2],
           <<Label("v", i - 1)>>, 0)]

video_select_filter(timestamps) ==
  [i \in DOMAIN timestamps |->
     Stage("select", "0:v", timestamps[i][1], timestamps[i][2],
           <<Label("v", i - 1)>>, 0)]

audio_select_filter(timestamps, has_audio) ==
  IF has_audio
  THEN [i \in DOMAIN timestamps |->
          Stage("aselect", "0:a", timestamps[i][1], timestamps[i][2],
                <<Label("a", i - 1)>>, 0)]
  ELSE <<>>

\* [v0][a0][v1][a1]... : the pads the concat reads
RECURSIVE select_filter_concat(_, _, _)
select_filter_concat(timestamps, has_audio, n) ==
  IF n = 0 THEN <<>>
  ELSE select_filter_concat(timestamps, has_audio, n - 1)
         \o <<Stage("pad", "", 0, 0, <<Label("v", n - 1)>>, 0)>>
         \o (IF has_audio
             THEN <<Stage("pad", "", 0, 0, <<Label("a", n - 1)>>, 0)>>
             ELSE <<>>)

fade_out_filter(render_settings, duration) ==
  IF render_settings.fade_out
  THEN <<Stage("afade", "outa",
               Tenths(duration) - Tenths(CONFIG_DEFAULT_FADE_OUT_DURATION)
                 - CONFIG_DEFAULT_FADE_OUT_BUFFER,
               Tenths(CONFIG_DEFAULT_FADE_OUT_DURATION), <<Label("outa", 0)>>, 0)>>
  ELSE <<>>

overlay_start(render_settings, timestamps, duration, video_duration) ==
  CASE render_settings.overlay_type = "video_start" -> 0
    [] render_settings.overlay_type = "video_end" -> video_duration - duration
    [] render_settings.overlay_type = "variant_end" ->
         MaxOf({0} \cup {timestamps[i][2] : i \in DOMAIN timestamps}) - duration
    [] OTHER -> MinOf({timestamps[i][1] : i \in DOMAIN timestamps})


\* the three filter graphs _build_ffmpeg_filters returns, and the duration it
\* adds up
_build_ffmpeg_filters(timestamps, has_audio, render_settings, video_duration) ==
  LET idx == Len(timestamps)
      duration == windows_duration(timestamps, idx)
      video == video_select_filter(timestamps)
      audio == audio_select_filter(timestamps, has_audio)
      pads == select_filter_concat(timestamps, has_audio, idx)
      fade == fade_out_filter(render_settings, duration)
      start == overlay_start(render_settings, timestamps, duration, video_duration)
  IN  [duration |-> duration,
       full_av_select_filter |->
         IF has_audio
         THEN video \o audio \o pads
                \o <<Stage("concat", "", 0, 0,
                           <<Label("outv", 0), Label("outa", 0)>>, idx)>>
                \o fade
         ELSE video \o pads
                \o <<Stage("concat", "", 0, 0, <<Label("outv", 0)>>, idx)>>,
       music_overlay_select_filter |->
         IF has_audio
         THEN video
                \o [i \in DOMAIN audio |-> [audio[i] EXCEPT !.src = "1:a"]]
                \o <<Stage("aselect", "2:a", start, start + duration,
                           <<Label("music", 0)>>, 0)>>
                \o pads
                \o <<Stage("concat", "", 0, 0,
                           <<Label("outv", 0), Label("tempa", 0)>>, idx),
                     Stage("amerge", "tempa", 0, 0, <<Label("outa", 0)>>, 2)>>
                \o fade
         ELSE <<>>,
       continuous_audio_select_filter |->
         IF has_audio
         THEN video
                \o <<Stage("aselect", "0:a", start, start + duration,
                           <<Label("outa", 0)>>, 0)>>
                \o SelectSeq(pads, LAMBDA p : p.out[1].name = "v")
                \o <<Stage("concat", "", 0, 0, <<Label("outv", 0)>>, idx)>>
                \o fade
         ELSE <<>>]

\* the mutant maps the audio output in every command
audio_maps_Always(has_audio) == <<"outa">>

\* '-map [outa]' only when the input has audio
audio_maps(has_audio) == IF has_audio THEN <<"outa">> ELSE <<>>

\* the mutant keeps '-ac 2' of the music overlay with the continuous audio
ffmpeg_filter_StereoWithContinuous(has_audio, music_overlay, continuous_audio, filters) ==
  IF has_audio /\ continuous_audio
  THEN [graph |-> filters.continuous_audio_select_filter, stereo |-> music_overlay]
  ELSE IF has_audio /\ music_overlay
  THEN [graph |-> filters.music_overlay_select_filter, stereo |-> TRUE]
  ELSE [graph |-> filters.full_av_select_filter, stereo |-> FALSE]

\* ffmpeg_filter: the full graph unless the input has audio and continuous
\* audio or, failing that, music overlay ('-ac 2' added) is asked for
ffmpeg_filter(has_audio, music_overlay, continuous_audio, filters) ==
  IF has_audio /\ continuous_audio
  THEN [graph |-> filters.continuous_audio_select_filter, stereo |-> FALSE]
  ELSE IF has_audio /\ music_overlay
  THEN [graph |-> filters.music_overlay_select_filter, stereo |-> TRUE]
  ELSE [graph |-> filters.full_av_select_filter, stereo |-> FALSE]

\* the command of one format: its inputs, its filter graph, its output maps
_get_variant_ffmpeg_commands(video_file_path, tracks, has_audio, music_overlay, continuous_audio, filters) ==
  [inputs |-> <<video_file_path>>
                \o (IF music_overlay /\ tracks
                    THEN <<"vocals.wav", "accompaniment.wav">> ELSE <<>>),
   filter_complex |-> ffmpeg_filter(has_audio, music_overlay, continuous_audio, filters).graph,
   stereo |-> ffmpeg_filter(has_audio, music_overlay, continuous_audio, filters).stereo,
   maps |-> <<"outv">> \o audio_maps(has_audio)]

\* _render_format without crop: the horizontal render passed through the blur
\* filter
blur_command(format_type) ==
  [inputs |-> <<"combo_h">>, filter_complex |-> <<>>, stereo |-> FALSE,
   maps |-> <<>>]

\* formats=None, the default of VideoVariantRenderSettings
NoFormats == {"None"}

FormatsOf(request) ==
  (IF "square" \in request.render_settings.formats THEN <<"square">> ELSE <<>>)
    \o (IF "vertical" \in request.render_settings.formats
        THEN <<"vertical">> ELSE <<>>)

\* ffmpeg exits with an error, and execute_subprocess_commands raises, when the
\* filter graph reads a stream that no input provides
ffmpeg_fails(command, has_audio) ==
  \E s \in DOMAIN command.filter_complex :
    LET src == command.filter_complex[s].src
    IN  \/ src = "0:a" /\ ~has_audio
        \/ src \in {"1:a", "2:a"} /\ Len(command.inputs) < 3

\* what _render_video_variant composes and runs: windows, duration and the
\* command of every format; a failing command raises, and so does
\* formats=None after the horizontal render
_render_video_variant(request) ==
  LET timestamps == shot_timestamps(request.av_segments)
      settings == request.render_settings
      filters == _build_ffmpeg_filters(timestamps, request.has_audio, settings,
                                       request.video_duration)
      command(path) ==
        _get_variant_ffmpeg_commands(path, request.tracks, request.has_audio,
                                     settings.use_music_overlay,
                                     settings.use_continuous_audio, filters)
      raised == \/ ffmpeg_fails(command("input"), request.has_audio)
                \/ settings.formats = NoFormats
      formats == IF raised THEN <<>> ELSE FormatsOf(request)
  IN  [shot_timestamps |-> timestamps,
       duration |-> filters.duration,
       commands |->
         <<command("input")>>
           \o [f \in DOMAIN formats |->
                 IF formats[f] \in request.crops THEN command(formats[f])
                 ELSE blur_command(formats[f])],
       raised |-> raised]

\* ---------------------------------------------------------------------------
\* The render requests and the composer's specification
\* ---------------------------------------------------------------------------

\* the tables finalise_extraction can write
OptimisedTables ==
  {_create_optimised_av_segments(shots_dataframe) :
     shots_dataframe \in
       {df \in UNION {UNION {get_visual_shots_data(a, t) : a \in ShotAnnotations} :
                        t \in Transcriptions} :
          ~optimiser_raises(df)}}

\* one table for every timeline they hold: the ids and times of a split table
\* depend on the ids and times of the table that is split, and on nothing else
Timelines == {VariantSegments(table) : table \in OptimisedTables}

TimelineTables ==
  {CHOOSE table \in OptimisedTables : VariantSegments(table) = timeline :
     timeline \in Timelines}

\* the split requests behind the tables a variant is taken from
MaxCuts == 1

CutRequests(table) ==
  UNION {[1..n -> {m \in Markers(table) : m.av_segment_id # AbsentId}] :
           n \in 1..MaxCuts}

\* the tables split_av_segment can write from them
SplitTables ==
  UNION {UNION {_finalise_split(read_av_segments(table), av_segment_markers) :
                  av_segment_markers \in CutRequests(table)} :
           table \in TimelineTables}

\* the rows of a table a variant takes, in the table's order
RECURSIVE Selected(_, _, _)
Selected(table, rows, n) ==
  IF n = 0 THEN <<>>
  ELSE Selected(table, rows, n - 1)
         \o (IF n \in rows THEN <<VariantSegments(table)[n]>> ELSE <<>>)

\* the av_segments dictionary of a VideoVariant: one entry per id, in the order
\* of first appearance, holding the last value given for the id
_video_variant_mapper(segment_dicts) ==
  LET keys == grouped_ids(segment_dicts, Len(segment_dicts))
  IN  [k \in DOMAIN keys |->
         segment_dicts[CHOOSE i \in DOMAIN segment_dicts :
                         /\ segment_dicts[i].av_segment_id = keys[k]
                         /\ \A j \in DOMAIN segment_dicts :
                              segment_dicts[j].av_segment_id = keys[k] => j <= i]]

\* VideoVariantRenderSettings() with no argument
DefaultRenderSettings ==
  [fade_out |-> FALSE, use_music_overlay |-> FALSE,
   use_continuous_audio |-> FALSE, overlay_type |-> "none", formats |-> NoFormats]

\* the lists of formats a request can carry, or none at all
Formats == {NoFormats} \cup SUBSET {"square", "vertical"}

RenderSettings ==
  [fade_out : BOOLEAN, use_music_overlay : BOOLEAN,
   use_continuous_audio : BOOLEAN, overlay_type : OverlayTypes \cup {"none"},
   formats : Formats]

TimelineEnd(table) == MaxOf({0} \cup {table[r].end_s : r \in DOMAIN table})

\* what one render invocation reads: the variant of the render file, whether
\* input.wav, the separated tracks and the crops exist, the video's duration
RenderRequest(table, rows, settings, has_audio, tracks, crops, video_duration) ==
  [timeline |-> VariantSegments(table),
   av_segments |-> _video_variant_mapper(Selected(table, rows, Len(table))),
   render_settings |-> settings,
   has_audio |-> has_audio,
   tracks |-> tracks,
   crops |-> crops,
   video_duration |-> video_duration]

\* any variant of any table, rendered with the default settings, the formats
\* left out or given as an empty list
DefaultRequests ==
  {r \in {RenderRequest(table, rows,
                        [DefaultRenderSettings EXCEPT !.formats = formats],
                        has_audio, FALSE, {}, video_duration) :
            rows \in SUBSET (1..MaxShots + MaxCuts) \ {{}},
            formats \in {NoFormats, {}},
            has_audio \in BOOLEAN,
            video_duration \in 0..MaxTime,
            table \in TimelineTables \cup SplitTables} :
     r.av_segments # <<>> /\ r.video_duration >= TimelineEnd(r.timeline)}

\* the variants covering a freshly extracted table, with any settings; the
\* separated tracks exist only for a video that has audio
SettingsRequests ==
  {RenderRequest(table, DOMAIN table, settings, audio[1], audio[2], crops,
                 TimelineEnd(table)) :
     table \in TimelineTables,
     settings \in RenderSettings,
     audio \in {<<FALSE, FALSE>>, <<TRUE, FALSE>>, <<TRUE, TRUE>>},
     crops \in SUBSET {"square", "vertical"}}

RenderRequests == DefaultRequests \cup SettingsRequests

CmpInit ==
  /\ variant \in RenderRequests
  /\ composed = <<>>
  /\ cmpPc = "request"
  /\ IdleExceptCmp

\* Combiner.render up to the rendered formats
render_video_variant ==
  /\ cmpPc = "request"
  /\ composed' = _render_video_variant(variant)
  /\ cmpPc' = IF _render_video_variant(variant).raised
              THEN "raised" ELSE "rendered"
  /\ UNCHANGED <<variant, otherThanCmp>>

CmpNext == render_video_variant

CmpSpec == CmpInit /\ [][CmpNext]_vars


\* ---------------------------------------------------------------------------
\* Claims about the render composer
\* ---------------------------------------------------------------------------

Composed == cmpPc \in {"rendered", "raised"}

CoversTimeline == variant.av_segments = variant.timeline

DefaultOptions ==
  /\ ~variant.render_settings.fade_out
  /\ ~variant.render_settings.use_music_overlay
  /\ ~variant.render_settings.use_continuous_audio
  /\ variant.render_settings.overlay_type = "none"

RECURSIVE SegmentsDuration(_, _)
SegmentsDuration(av_segments, n) ==
  IF n = 0 THEN 0
  ELSE SegmentsDuration(av_segments, n - 1)
         + (av_segments[n].end_s - av_segments[n].start_s)

VariantContiguous ==
  \A i \in DOMAIN variant.av_segments :
    i > 1 => variant.av_segments[i].start_s = variant.av_segments[i - 1].end_s

\* C11 as stated: for a variant covering the entire timeline with default render
\* options, the total duration composed (the sum of the lengths of the
\* selection windows) equals the sum of the durations of the variant's segments
C11_DurationIsSumOfSegments ==
  (Composed /\ CoversTimeline /\ DefaultOptions)
    => composed.duration
         = SegmentsDuration(variant.av_segments, Len(variant.av_segments))

\* C11 amended: the same, for a variant whose segments are contiguous, each
\* starting where the one before it ends
C11_DurationIsSumOfContiguousSegments ==
  (Composed /\ CoversTimeline /\ DefaultOptions /\ VariantContiguous)
    => composed.duration
         = SegmentsDuration(variant.av_segments, Len(variant.av_segments))

\* a rendered variant of three contiguous segments, one of them a sub-segment,
\* that does not start at the beginning of the video
C11_Witness ==
  /\ cmpPc = "rendered" /\ CoversTimeline /\ DefaultOptions /\ VariantContiguous
  /\ Len(variant.av_segments) >= 3
  /\ \E i \in DOMAIN variant.av_segments :
       Len(variant.av_segments[i].av_segment_id) > 1
  /\ variant.av_segments[1].start_s > 0
  /\ composed.duration > 0


AudioStages == {"aselect", "afade", "amerge"}

AudioLabels == {"a", "outa", "tempa", "music"}

\* a command that reads, filters and writes video only
VideoOnly(command) ==
  /\ \A s \in DOMAIN command.filter_complex :
       LET stage == command.filter_complex[s]
       IN  /\ stage.stage \notin AudioStages
           /\ stage.src \in {"0:v", ""}
           /\ \A o \in DOMAIN stage.out : stage.out[o].name \notin AudioLabels
  /\ \A m \in DOMAIN command.maps : command.maps[m] # "outa"
  /\ ~command.stereo

\* C20: when the input has no audio track, every render command is video-only
\* (no audio select, concat or fade stage in the filter graph, no audio output
\* mapped) whatever the music-overlay, continuous-audio and fade-out options,
\* and the render raises only where it raises for a video with audio too
C20_NoAudioMeansVideoOnly ==
  (Composed /\ ~variant.has_audio)
    => /\ \A c \in DOMAIN composed.commands : VideoOnly(composed.commands[c])
       /\ composed.raised =>
            _render_video_variant([variant EXCEPT !.has_audio = TRUE,
                                                  !.tracks = TRUE]).raised

\* a video without audio rendered in three formats, one of them from a crop,
\* with music overlay, continuous audio and fade-out all requested
C20_Witness ==
  /\ cmpPc = "rendered" /\ ~variant.has_audio
  /\ variant.render_settings.use_music_overlay
  /\ variant.render_settings.use_continuous_audio
  /\ variant.render_settings.fade_out
  /\ Len(composed.commands) = 3
  /\ \E c \in DOMAIN composed.commands :
       composed.commands[c].inputs = <<"square">>


\* the stages of a kind in a graph, in the graph's order
StagesOf(filter_complex, kind) == SelectSeq(filter_complex, LAMBDA st : st.stage = kind)

\* one stage per window, in window order, each selecting its window from src
OnePerWindow(stages, kind, src, windows, label) ==
  /\ Len(stages) = Len(windows)
  /\ \A i \in DOMAIN stages :
       stages[i] = Stage(kind, src, windows[i][1], windows[i][2],
                         <<Label(label, i - 1)>>, 0)

\* the commands that build the variant from the windows (not the blur pass)
WindowCommands == {c \in DOMAIN composed.commands : composed.commands[c].maps # <<>>}

\* per-window original audio: neither continuous audio nor music overlay
PerWindowAudio ==
  /\ variant.has_audio
  /\ ~variant.render_settings.use_continuous_audio
  /\ ~variant.render_settings.use_music_overlay

\* C31: the filter graph of a variant has one select stage per window, in
\* window order, for video and, with per-window audio, one per window for
\* audio, none at all when the input has no audio; one concat whose n is the
\* number of windows; an audio fade-out stage only when fade-out is requested,
\* and then whenever the input has audio
C31_OneSelectPerWindowThenConcat ==
  Composed =>
    \A c \in WindowCommands :
      LET graph == composed.commands[c].filter_complex
      IN  /\ OnePerWindow(StagesOf(graph, "select"), "select", "0:v",
                          composed.shot_timestamps, "v")
          /\ PerWindowAudio =>
               OnePerWindow(StagesOf(graph, "aselect"), "aselect", "0:a",
                            composed.shot_timestamps, "a")
          /\ ~variant.has_audio => StagesOf(graph, "aselect") = <<>>
          /\ Len(StagesOf(graph, "concat")) = 1
          /\ StagesOf(graph, "concat")[1].n = Len(composed.shot_timestamps)
          /\ \A s \in DOMAIN graph :
               graph[s].stage \in {"select", "aselect"} =>
                 \E k \in DOMAIN graph : k > s /\ graph[k].stage = "concat"
          /\ (StagesOf(graph, "afade") # <<>>)
               <=> (variant.render_settings.fade_out /\ variant.has_audio)

\* a rendered variant of two windows with per-window audio
C31_Witness ==
  /\ cmpPc = "rendered" /\ PerWindowAudio
  /\ Len(composed.shot_timestamps) = 2
  /\ Len(StagesOf(composed.commands[1].filter_complex, "aselect")) = 2
  /\ StagesOf(composed.commands[1].filter_complex, "concat")[1].n = 2


\* the audio stages of a graph
AudioSelects(graph) == StagesOf(graph, "aselect")

\* per-window original audio: every audio select reads the input's own audio
\* into a pad of the concat; nothing is merged
UsesPerWindowAudio(command) ==
  /\ \A i \in DOMAIN AudioSelects(command.filter_complex) :
       /\ AudioSelects(command.filter_complex)[i].src = "0:a"
       /\ AudioSelects(command.filter_complex)[i].out[1].name = "a"
  /\ StagesOf(command.filter_complex, "amerge") = <<>>
  /\ ~command.stereo

\* music overlay: the speech track per window, one slice of the music track,
\* merged into two channels
UsesMusicOverlay(command) ==
  /\ \A i \in DOMAIN AudioSelects(command.filter_complex) :
       AudioSelects(command.filter_complex)[i].src \in {"1:a", "2:a"}
  /\ \E i \in DOMAIN AudioSelects(command.filter_complex) :
       AudioSelects(command.filter_complex)[i].src = "2:a"
  /\ Len(StagesOf(command.filter_complex, "amerge")) = 1
  /\ command.stereo

\* continuous audio: one slice of the input's own audio is the audio output
UsesContinuousAudio(command) ==
  /\ Len(AudioSelects(command.filter_complex)) = 1
  /\ AudioSelects(command.filter_complex)[1].src = "0:a"
  /\ AudioSelects(command.filter_complex)[1].out[1].name = "outa"
  /\ StagesOf(command.filter_complex, "amerge") = <<>>
  /\ ~command.stereo

AudioModes(command) ==
  {m \in {"per_window", "music_overlay", "continuous"} :
     \/ m = "per_window" /\ UsesPerWindowAudio(command)
     \/ m = "music_overlay" /\ UsesMusicOverlay(command)
     \/ m = "continuous" /\ UsesContinuousAudio(command)}

\* C32: every render command sources its audio in exactly one of the three
\* modes, whatever use_music_overlay and use_continuous_audio are: continuous
\* audio when it is asked for (also together with music overlay), else music
\* overlay when that is asked for, else per-window audio; a video without
\* audio is rendered by the per-window graph, which then has no audio stage
C32_ExactlyOneAudioMode ==
  Composed =>
    \A c \in WindowCommands :
      AudioModes(composed.commands[c]) =
        IF variant.has_audio /\ variant.render_settings.use_continuous_audio
        THEN {"continuous"}
        ELSE IF variant.has_audio /\ variant.render_settings.use_music_overlay
        THEN {"music_overlay"}
        ELSE {"per_window"}

\* a video with audio and separated tracks, rendered with both options set:
\* the command takes the continuous audio only
C32_Witness ==
  /\ cmpPc = "rendered" /\ variant.has_audio /\ variant.tracks
  /\ variant.render_settings.use_music_overlay
  /\ variant.render_settings.use_continuous_audio
  /\ AudioModes(composed.commands[1]) = {"continuous"}


\* the streams a command's graph reads from the inputs after the first
ExtraStreamsRead(command) ==
  {command.filter_complex[s].src : s \in DOMAIN command.filter_complex}
    \cap {"1:a", "2:a"}

MusicOverlayWithoutTracks ==
  /\ variant.has_audio /\ ~variant.tracks
  /\ variant.render_settings.use_music_overlay
  /\ ~variant.render_settings.use_continuous_audio
  /\ variant.render_settings.formats # NoFormats

\* C38: the graph of a render command reads only streams of inputs the command
\* supplies: the music-overlay graph (speech track as input 1, music track as
\* input 2) is used only when both tracks are supplied, and a request for
\* music overlay without the tracks is rendered without it instead of failing
C38_GraphReadsOnlySuppliedInputs ==
  Composed =>
    /\ \A c \in WindowCommands :
         ExtraStreamsRead(composed.commands[c]) # {} =>
           Len(composed.commands[c].inputs) = 3
    /\ MusicOverlayWithoutTracks => cmpPc = "rendered"


\* ---------------------------------------------------------------------------
\* Cutting and annotating the segments (Extractor.finalise_av_segments)
\* ---------------------------------------------------------------------------

MaxSegments == 2

MaxRuns == 2

\* text values are token lists: '' is the empty list
EmptyText == <<>>

NoneValue == <<"None">>

NaN == <<"NaN">>

\* what the model can do with a request: raise, return no candidate or no
\* text, return a text the pattern does not match, return a text it matches
Responses == {"raise", "blocked", "garbled", "text"}

\* the try block of _cut_and_annotate_av_segment: both values stay '' unless
\* the response has a text the pattern matches
annotation(response, av_segment_id, run) ==
  IF response = "text"
  THEN <<<<"description", av_segment_id, run>>, <<"keywords", av_segment_id, run>>>>
  ELSE <<EmptyText, EmptyText>>

CutKey(av_segment_id) == [dir |-> "av_segments_cuts", name |-> av_segment_id, ext |-> "mp4"]

ScreenshotKey(av_segment_id) == [dir |-> "av_segments_cuts", name |-> av_segment_id, ext |-> "jpg"]

DataKey == [dir |-> "", name |-> 0, ext |-> "data.json"]

\* an object of the bucket: GCS numbers its generations, and a precondition
\* if_generation_match=0 holds when the object has none yet
Object(key, content) == [key |-> key, content |-> content, generation |-> 1]

ObjectKeys(objects) == {o.key : o \in objects}

\* upload_gcs_file with overwrite=False: if_generation_match=0 makes the upload
\* fail when the object exists
upload_gcs_file_raises_Never(objects, key) == FALSE

upload_gcs_file_raises(objects, key) == key \in ObjectKeys(objects)

\* the upload itself: a new object, or a new generation of the object
upload_gcs_file(objects, key, content) ==
  {o \in objects : o.key # key}
    \cup {[key |-> key, content |-> content,
           generation |-> IF key \in ObjectKeys(objects)
                          THEN 1 + (CHOOSE o \in objects : o.key = key).generation
                          ELSE 1]}

\* the mutant overwrites the objects that exist
upload_gcs_dir_Overwrite(objects, files) ==
  {o \in objects : o.key \notin ObjectKeys(files)} \cup files

\* upload_gcs_dir: skip_if_exists=True, a 412 is not reported
upload_gcs_dir(objects, files) ==
  objects \cup {f \in files : f.key \notin ObjectKeys(objects)}

\* the mutant cuts every row
row_cut_Always(row) == TRUE

\* cut = row['cut']: the rows of the model all carry the column
row_cut(row) == row.cut

\* one call of _cut_and_annotate_av_segment, given what ffmpeg and the model do
_cut_and_annotate_av_segment(row, av_segment_id, objects, cut_ok, screenshot_ok, response, run) ==
  LET with_cut == upload_gcs_file(objects, CutKey(av_segment_id), <<"cut", av_segment_id>>)
      with_screenshot ==
        upload_gcs_file(with_cut, ScreenshotKey(av_segment_id), <<"screenshot", av_segment_id>>)
      raise(left) ==
        [raised |-> TRUE, objects |-> left, response |-> "none",
         result |-> <<NoneValue, NoneValue>>]
  IN  IF ~row_cut(row)
      THEN [raised |-> FALSE, objects |-> objects, response |-> "none",
            result |-> <<row.description, row.keywords>>]
      ELSE IF ~cut_ok THEN raise(objects)
      ELSE IF upload_gcs_file_raises(objects, CutKey(av_segment_id))
      THEN raise(objects)
      ELSE IF ~screenshot_ok THEN raise(with_cut)
      ELSE IF upload_gcs_file_raises(with_cut, ScreenshotKey(av_segment_id))
      THEN raise(with_cut)
      ELSE [raised |-> FALSE, objects |-> with_screenshot, response |-> response,
            result |-> annotation(response, av_segment_id, run)]

\* the mutant stores a result at the position of its completion
result_index_Completion(index, completed) == completed

\* index = futures_dict[response]: a result is stored at the row's position
result_index(index, completed) == index

EnhanceResponses == {"raise", "blocked", "garbled", "scenes"}

\* one column after enhance_av_segments: a response of well-formed scenes
\* replaces it by the scenes' values, aligned by position; rows without a scene
\* get NaN; any other response leaves it as it is
enhanced_column(column, name, response, scenes, run) ==
  IF response = "scenes" /\ scenes > 0
  THEN [i \in DOMAIN column |-> IF i <= scenes THEN <<name, i, run>> ELSE NaN]
  ELSE column

\* data.json: the records of the table
data_json(description_column, keywords_column) ==
  [i \in DOMAIN description_column |->
     [description |-> description_column[i], keywords |-> keywords_column[i]]]

\* the files of tmp_dir that upload_gcs_dir sends: data.json and the cuts and
\* screenshots made by this invocation
tmp_dir_files(rows, content) ==
  {Object(DataKey, content)}
    \cup {Object(CutKey(i), <<"cut", i>>) : i \in {r \in DOMAIN rows : rows[r].cut}}
    \cup {Object(ScreenshotKey(i), <<"screenshot", i>>) :
            i \in {r \in DOMAIN rows : rows[r].cut}}

\* the rows: fresh segments are all cut; after a split the rows that were not
\* split keep their annotations and their objects
Row(cut, i) ==
  [cut |-> cut,
   description |-> IF cut THEN NoneValue ELSE <<"description", i, 0>>,
   keywords |-> IF cut THEN NoneValue ELSE <<"keywords", i, 0>>]

Tables ==
  UNION {{[i \in 1..n |-> Row(cuts[i], i)] : cuts \in [1..n -> BOOLEAN]} :
           n \in 1..MaxSegments}

ExistingObjects(rows) ==
  {Object(CutKey(i), <<"cut", i>>) : i \in {r \in DOMAIN rows : ~rows[r].cut}}
    \cup {Object(ScreenshotKey(i), <<"screenshot", i>>) :
            i \in {r \in DOMAIN rows : ~rows[r].cut}}

AnnInit ==
  /\ annRows \in Tables
  /\ annPc = [i \in DOMAIN annRows |-> "submitted"]
  /\ annResponse = [i \in DOMAIN annRows |-> "none"]
  /\ annResult = [i \in DOMAIN annRows |-> <<NoneValue, NoneValue>>]
  /\ descriptions = [i \in DOMAIN annRows |-> NoneValue]
  /\ keywords = [i \in DOMAIN annRows |-> NoneValue]
  /\ annCollected = 0
  /\ annBatch = "running"
  /\ annStorage = ExistingObjects(annRows)
  /\ annRun = 1
  /\ annFirst = {}
  /\ annPrev = "none"
  /\ IdleExceptAnn

\* a pool thread runs the call submitted for row i
cut_and_annotate_av_segment(i) ==
  /\ annBatch \in {"running", "raising"}
  /\ annPc[i] = "submitted"
  /\ \E cut_ok \in BOOLEAN, screenshot_ok \in BOOLEAN, response \in Responses :
       LET call == _cut_and_annotate_av_segment(annRows[i], i, annStorage, cut_ok,
                                                screenshot_ok, response, annRun)
       IN  /\ annPc' = [annPc EXCEPT ![i] = IF call.raised THEN "raised" ELSE "returned"]
           /\ annStorage' = call.objects
           /\ annResponse' = [annResponse EXCEPT ![i] = call.response]
           /\ annResult' = [annResult EXCEPT ![i] = call.result]
  /\ UNCHANGED <<annRows, descriptions, keywords, annCollected, annBatch,
                 annRun, annFirst, annPrev,
                 otherThanAnn>>

\* the as_completed loop takes a finished future: its result goes into the
\* lists
collect_result(i) ==
  /\ annBatch = "running"
  /\ annPc[i] = "returned"
  /\ LET index == result_index(i, annCollected + 1)
     IN  /\ descriptions' = [descriptions EXCEPT ![index] = annResult[i][1]]
         /\ keywords' = [keywords EXCEPT ![index] = annResult[i][2]]
  /\ annCollected' = annCollected + 1
  /\ annPc' = [annPc EXCEPT ![i] = "collected"]
  /\ UNCHANGED <<annRows, annResponse, annResult, annBatch, annStorage, annRun,
                 annFirst, annPrev,
                 otherThanAnn>>

\* response.result() re-raises what the call raised: the loop is left
collect_exception(i) ==
  /\ annBatch = "running"
  /\ annPc[i] = "raised"
  /\ annBatch' = "raising"
  /\ annPc' = [annPc EXCEPT ![i] = "reraised"]
  /\ UNCHANGED <<annRows, annResponse, annResult, descriptions, keywords,
                 annCollected, annStorage, annRun, annFirst, annPrev,
                 otherThanAnn>>

\* leaving the with block waits for the calls still running, then the
\* exception ends the invocation
batch_raises ==
  /\ annBatch = "raising"
  /\ \A i \in DOMAIN annPc : annPc[i] # "submitted"
  /\ annBatch' = "raised"
  /\ UNCHANGED <<annRows, annPc, annResponse, annResult, descriptions, keywords,
                 annCollected, annStorage, annRun, annFirst, annPrev,
                 otherThanAnn>>

\* the mutant leaves the loop after the first result
as_completed_exhausted_AfterFirst(collected, size) == collected >= 1

\* for response in as_completed(futures_dict): the loop ends when every
\* future has been yielded
as_completed_exhausted(collected, size) == collected = size

\* cut_and_annotate_av_segments returns the table with the lists assigned
batch_returns ==
  /\ annBatch = "running"
  /\ as_completed_exhausted(annCollected, Len(annRows))
  /\ annBatch' = "annotated"
  /\ UNCHANGED <<annRows, annPc, annResponse, annResult, descriptions, keywords,
                 annCollected, annStorage, annRun, annFirst, annPrev,
                 otherThanAnn>>

\* the rest of finalise_av_segments: the coherence pass, data.json, the upload
\* of tmp_dir
enhance_and_upload ==
  /\ annBatch = "annotated"
  /\ \E response \in EnhanceResponses, scenes \in 0..MaxSegments :
       /\ descriptions' = enhanced_column(descriptions, "new_description",
                                          response, scenes, annRun)
       /\ keywords' = enhanced_column(keywords, "keywords", response, scenes,
                                      annRun)
       /\ annStorage' =
            upload_gcs_dir(annStorage,
                           tmp_dir_files(annRows, data_json(descriptions', keywords')))
  /\ annBatch' = "written"
  /\ UNCHANGED <<annRows, annPc, annResponse, annResult, annCollected, annRun,
                 annFirst, annPrev,
                 otherThanAnn>>

\* the trigger is delivered again: a new invocation starts from the same rows
redeliver ==
  /\ annBatch \in {"written", "raised"}
  /\ annRun < MaxRuns
  /\ annRun' = annRun + 1
  /\ annFirst' = annStorage
  /\ annPrev' = annBatch
  /\ annPc' = [i \in DOMAIN annRows |-> "submitted"]
  /\ annResponse' = [i \in DOMAIN annRows |-> "none"]
  /\ annResult' = [i \in DOMAIN annRows |-> <<NoneValue, NoneValue>>]
  /\ descriptions' = [i \in DOMAIN annRows |-> NoneValue]
  /\ keywords' = [i \in DOMAIN annRows |-> NoneValue]
  /\ annCollected' = 0
  /\ annBatch' = "running"
  /\ UNCHANGED <<annRows, annStorage, otherThanAnn>>

AnnNext ==
  \/ \E i \in 1..MaxSegments : i \in DOMAIN annRows /\ cut_and_annotate_av_segment(i)
  \/ \E i \in 1..MaxSegments : i \in DOMAIN annRows /\ collect_result(i)
  \/ \E i \in 1..MaxSegments : i \in DOMAIN annRows /\ collect_exception(i)
  \/ batch_raises
  \/ batch_returns
  \/ enhance_and_upload
  \/ redeliver

AnnSpec == AnnInit /\ [][AnnNext]_vars

\* the coherence pass has replaced the annotation of every row by the values of
\* the model's scene of the same number
EveryRowRewritten ==
  \A i \in DOMAIN annRows :
    /\ descriptions'[i] = <<"new_description", i, annRun>>
    /\ keywords'[i] = <<"keywords", i, annRun>>

\* C37: the coherence pass either replaces the description and keywords of
\* every segment by the model's rewritten values or leaves those of every
\* segment exactly as they were
C37_CoherencePassAllOrNothing ==
  [][(annBatch = "annotated" /\ annBatch' = "written")
       => \/ EveryRowRewritten
          \/ descriptions' = descriptions /\ keywords' = keywords]_vars


\* ---------------------------------------------------------------------------
\* Claims about cutting and annotating
\* ---------------------------------------------------------------------------

ModelFailed(i) == annResponse[i] \in {"raise", "blocked", "garbled"}

Annotated(i) ==
  /\ descriptions[i] = <<"description", i, annRun>>
  /\ keywords[i] = <<"keywords", i, annRun>>

\* C12: a model-call failure or an unparsable response while annotating one
\* segment gives that segment an empty description and empty keywords and
\* touches no other segment: every segment the model answered properly has its
\* annotation when the batch returns, and a call that reached the model never
\* raises, so the batch completes
C12_ModelFailureEmptiesOneSegment ==
  /\ annBatch = "annotated" =>
       \A i \in DOMAIN annRows :
         /\ ModelFailed(i) =>
              descriptions[i] = EmptyText /\ keywords[i] = EmptyText
         /\ annResponse[i] = "text" => Annotated(i)
  /\ \A i \in DOMAIN annRows :
       annResponse[i] # "none" => annPc[i] \in {"returned", "collected"}

\* a returned batch of two segments: the model failed for the first, which
\* completed last, and the second is annotated
C12_Witness ==
  /\ annBatch = "annotated" /\ Len(annRows) = 2
  /\ annResponse[1] = "raise" /\ descriptions[1] = EmptyText
  /\ annResponse[2] = "text" /\ Annotated(2)


\* C29: the per-segment calls of one invocation run on the pool in any order
\* and are all joined before the stage ends, whether it returns or raises; when
\* it returns, every call has been collected and the description and keywords
\* of each row are the ones its own call returned
C29_TasksJoinedAndStoredAtOwnRow ==
  /\ annBatch \in {"annotated", "written", "raised"} =>
       \A i \in DOMAIN annRows : annPc[i] # "submitted"
  /\ annBatch = "annotated" =>
       \A i \in DOMAIN annRows :
         /\ annPc[i] = "collected"
         /\ descriptions[i] = annResult[i][1]
         /\ keywords[i] = annResult[i][2]

\* the second row's call finished and was collected while the first row's
\* call had not finished: its result is in the second position of the lists
C29_Witness ==
  /\ Len(annRows) = 2 /\ annRows[1].cut /\ annRows[2].cut
  /\ annPc[1] = "submitted" /\ annPc[2] = "collected"
  /\ annCollected = 1 /\ annBatch = "running"
  /\ annResponse[2] = "text" /\ Annotated(2)
  /\ descriptions[1] = NoneValue


\* the call of row i has run in this step
CallRan(i) == annPc[i] = "submitted" /\ annPc'[i] # "submitted"

PriorAnnotation(i) == <<annRows[i].description, annRows[i].keywords>>

\* C28: for a segment with cut=false the worker makes no cut, no still, no
\* upload and no model call: its call leaves storage as it is, reaches no
\* model, never raises and returns the row's own description and keywords,
\* which are what the returned batch holds for the row
C28_UncutRowIsReused ==
  [][\A i \in DOMAIN annRows :
       ~annRows[i].cut =>
         /\ CallRan(i) =>
              /\ annStorage' = annStorage
              /\ annResponse'[i] = "none"
              /\ annPc'[i] = "returned"
              /\ annResult'[i] = PriorAnnotation(i)
         /\ annBatch' = "annotated" =>
              <<descriptions'[i], keywords'[i]>> = PriorAnnotation(i)]_vars

\* a returned batch of a cut and an uncut row: the uncut row has the
\* annotation it came with, the cut row a new one, and storage has gained the
\* cut row's objects only
C28_Witness ==
  /\ annBatch = "annotated" /\ Len(annRows) = 2 /\ annRun = 1
  /\ ~annRows[1].cut /\ annRows[2].cut
  /\ descriptions[1] = <<"description", 1, 0>> /\ keywords[1] = <<"keywords", 1, 0>>
  /\ Annotated(2)
  /\ ObjectKeys(annStorage) =
       {CutKey(1), ScreenshotKey(1), CutKey(2), ScreenshotKey(2)}


\* in the first delivery no object of a cut row exists, so a call raises only
\* when ffmpeg fails
MediaToolFailed ==
  annRun = 1 /\ \E i \in DOMAIN annRows : annPc[i] \in {"raised", "reraised"}

\* C18: when an ffmpeg call fails while the segments are cut, the invocation
\* aborts (the table is never returned or written) and, once it has aborted,
\* storage holds no cut or screenshot made by it
C18_MediaFailureLeavesNoPartialCuts ==
  MediaToolFailed =>
    /\ annBatch \notin {"annotated", "written"}
    /\ annBatch = "raised" => annStorage = ExistingObjects(annRows)


\* ---------------------------------------------------------------------------
\* Chunking (process_video, _process_video_with_audio)
\* ---------------------------------------------------------------------------

MaxLimit == 2

MaxChunks == 2

\* a file of output_dir: the input, or chunk {index}{suffix}, renamed to
\* {index}-{total}{suffix}
InputFile == [kind |-> "input", index |-> 0, total |-> 0]

ChunkFile(file_count) == [kind |-> "chunk", index |-> file_count, total |-> 0]

\* what is chunked: a video by size, an audio track by duration
ChunkInputs ==
  {i \in [medium : {"video", "audio"}, measure : 0..MaxLimit + 1,
          limit : 1..MaxLimit, duration : 0..MaxLimit + 1] :
     i.medium = "audio" => i.measure = i.duration}

\* the mutant renames whatever the result holds
rename_needed_Always(file_count) == TRUE

\* 'if file_count:'
rename_needed(file_count) == file_count # 0

\* Utils.rename_chunks: every file of the result gets the number of chunks in
\* its name
rename_chunks(files, result) ==
  {IF f \in Range(result) THEN [f EXCEPT !.total = Len(result)] ELSE f : f \in files}

ChkInit ==
  /\ chkInput \in ChunkInputs
  /\ chkFiles = {InputFile}
  /\ chkResult = <<>>
  /\ chkCount = 0 /\ chkCurrent = 0 /\ chkCuts = 0
  /\ chkStorage = {InputFile}
  /\ chkTotal = 0
  /\ chkPc = "start"
  /\ IdleExceptChk

\* the head of _get_video_chunks / _get_audio_chunks: the probe of the input
\* and the comparison with the limit
get_chunks ==
  /\ chkPc = "start"
  /\ \E probe_ok \in BOOLEAN :
       IF ~probe_ok THEN chkPc' = "raised" /\ UNCHANGED chkResult
       ELSE IF chkInput.measure > chkInput.limit
       THEN chkPc' = "loop" /\ UNCHANGED chkResult
       ELSE chkPc' = "rename" /\ chkResult' = <<InputFile>>
  /\ UNCHANGED <<chkInput, chkFiles, chkCount, chkCurrent, chkCuts, chkStorage,
                 chkTotal, otherThanChk>>

\* one turn of the loop: the ffmpeg cut, the probe of the chunk; a chunk of
\* duration 0 ends the loop of the video chunker and is removed
cut_chunk ==
  /\ chkPc = "loop"
  /\ chkCurrent < chkInput.duration
  /\ chkCount < MaxChunks
  /\ chkCuts' = chkCuts + 1
  /\ \E cut_ok \in BOOLEAN, probe_ok \in BOOLEAN, new_duration \in 0..chkInput.limit :
       IF ~cut_ok
       THEN /\ chkPc' = "raised" /\ chkCount' = chkCount + 1
            /\ UNCHANGED <<chkFiles, chkResult, chkCurrent>>
       ELSE IF ~probe_ok
       THEN /\ chkPc' = "raised" /\ chkCount' = chkCount + 1
            /\ chkFiles' = chkFiles \cup {ChunkFile(chkCount + 1)}
            /\ UNCHANGED <<chkResult, chkCurrent>>
       ELSE IF chkInput.medium = "video" /\ new_duration = 0
       THEN /\ chkPc' = "rename"
            /\ UNCHANGED <<chkFiles, chkResult, chkCurrent, chkCount>>
       ELSE /\ chkPc' = "loop" /\ chkCount' = chkCount + 1
            /\ chkFiles' = chkFiles \cup {ChunkFile(chkCount + 1)}
            /\ chkResult' = Append(chkResult, ChunkFile(chkCount + 1))
            /\ chkCurrent' = chkCurrent + new_duration
  /\ UNCHANGED <<chkInput, chkStorage, chkTotal, otherThanChk>>

\* 'while current_duration < duration' ends
chunks_cut ==
  /\ chkPc = "loop"
  /\ chkCurrent >= chkInput.duration
  /\ chkPc' = "rename"
  /\ UNCHANGED <<chkInput, chkFiles, chkResult, chkCount, chkCurrent, chkCuts,
                 chkStorage, chkTotal, otherThanChk>>

\* the tail of the chunker and the caller: rename_chunks, upload_gcs_dir of
\* output_dir, and the immediate analysis of the input when there is one chunk
process_chunks ==
  /\ chkPc = "rename"
  /\ chkFiles' = IF rename_needed(chkCount)
                 THEN rename_chunks(chkFiles, chkResult) ELSE chkFiles
  /\ chkStorage' = chkStorage \cup chkFiles'
  /\ chkTotal' = IF Len(chkResult) = 1 THEN 1 ELSE 0
  /\ chkPc' = "processed"
  /\ UNCHANGED <<chkInput, chkResult, chkCount, chkCurrent, chkCuts, otherThanChk>>

ChkNext ==
  \/ get_chunks
  \/ cut_chunk
  \/ chunks_cut
  \/ process_chunks

ChkSpec == ChkInit /\ [][ChkNext]_vars

\* C39: the chunker hands at least one chunk to the analysis, and the chunks
\* it cut carry the number of chunks in their names
C39_ChunksNonEmptyWithTotal ==
  chkPc = "processed" =>
    /\ Len(chkResult) >= 1
    /\ \A f \in chkFiles : f.kind = "chunk" => f.total = Len(chkResult)

UnderLimit == chkInput.measure <= chkInput.limit

\* C13: chunking a file that is not over the size or duration limit returns
\* exactly one chunk, the input file itself: no cut is made, the file is
\* neither renamed nor copied, and it is analysed at once with total 1
C13_UnderLimitIsItsOwnChunk ==
  (UnderLimit /\ chkPc = "processed")
    => /\ chkResult = <<InputFile>>
       /\ chkCuts = 0
       /\ chkFiles = {InputFile}
       /\ chkStorage = {InputFile}
       /\ chkTotal = 1

\* a video whose size equals the limit, processed
C13_Witness ==
  /\ chkPc = "processed" /\ chkInput.medium = "video"
  /\ chkInput.measure = chkInput.limit
  /\ chkInput.duration > chkInput.limit
  /\ chkResult = <<InputFile>>

\* the analyses a processed input gets: one per uploaded chunk object (the
\* object's upload event is an extraction trigger) and the immediate one of
\* the input
ChunkAnalyses ==
  {f \in chkStorage : f.kind = "chunk"}
    \cup (IF chkTotal = 1 THEN {InputFile} ELSE {})

\* the chunks of the result under their final names
FinalChunks ==
  IF rename_needed(chkCount)
  THEN rename_chunks(Range(chkResult), chkResult) ELSE Range(chkResult)

\* C22: the files analysed are exactly the chunks of the result, and the input
\* is analysed directly only when it is itself the sole chunk
C22_EachChunkAnalysedOnce ==
  chkPc = "processed" =>
    /\ ChunkAnalyses = FinalChunks
    /\ chkTotal = 1 => chkResult = <<InputFile>>

\* C23: every turn of the chunking loop either advances the offset or leaves
\* the loop
C23_LoopAdvancesOrStops ==
  [][(chkPc = "loop" /\ chkPc' = "loop") => chkCurrent' > chkCurrent]_vars

(***************************************************************************)
(* utils/utils.py: TriggerFile, the classification of an uploaded object.  *)
(* A key is its folder (the path components, each split at "--") and its   *)
(* file name: "{idx}-{tot}" (0/0: none) followed by the tokens of rest,    *)
(* whose last token carries the extension.                                 *)
(***************************************************************************)
MaxNameTokens == 3
MaxRootPieces == 4

INPUT_EXTRACTION_FINALISE_FILE == <<"extract", "_", "finalise.txt">>
INPUT_EXTRACTION_SPLIT_SEGMENT_SUFFIX == <<"_", "split.json">>

\* os.path.splitext on the last token of a name: (stem, extension)
splitext(token) ==
  CASE token = ".mp4" -> [stem |-> <<>>, ext |-> "mp4"]
    [] token = ".wav" -> [stem |-> <<>>, ext |-> "wav"]
    [] token = ".txt" -> [stem |-> <<>>, ext |-> "txt"]
    [] token = ".json" -> [stem |-> <<>>, ext |-> "json"]
    [] token = "render.json" -> [stem |-> <<"render">>, ext |-> "json"]
    [] token = "split.json" -> [stem |-> <<"split">>, ext |-> "json"]
    [] token = "finalise.txt" -> [stem |-> <<"finalise">>, ext |-> "txt"]
    [] OTHER -> [stem |-> <<token>>, ext |-> ""]

\* VideoExtension.has_value
VideoExtension == {"mp4", "flv", "mov", "mpeg", "m2p", "ps", "mpg", "webm",
                   "wmv", "3gp"}

\* int(video_timestamp) succeeds on these pieces
Numerals == {"1"}

\* VideoMetadata.__init__ on the pieces of metadata.split('--'): the unpacking
\* raises unless there are three or four, int() unless the timestamp is one
VideoMetadata_raises(components) ==
  \/ Len(components) \notin {3, 4}
  \/ components[Len(components) - 1] \notin Numerals

\* the "{idx}-{tot}" that starts the name of a chunk, request or marker
NumberPrefix(key) ==
  IF key.idx = 0 /\ key.tot = 0 THEN <<>>
  ELSE <<ToString(key.idx) \o "-" \o ToString(key.tot)>>

\* TriggerFile.__init__: pathlib parents[-2] needs a folder, VideoMetadata a
\* well-formed root folder
TriggerFile_raises(key) ==
  \/ key.folder = <<>>
  \/ VideoMetadata_raises(key.folder[1])

\* TriggerFile.__init__: file_name, file_ext and file_name_ext
TriggerFile(key) ==
  LET parts == splitext(key.rest[Len(key.rest)])
      file_name == NumberPrefix(key)
                     \o SubSeq(key.rest, 1, Len(key.rest) - 1) \o parts.stem
  IN [file_name |-> file_name,
      file_ext |-> parts.ext,
      file_name_ext |-> IF parts.ext = "" THEN file_name \o <<".">>
                        ELSE NumberPrefix(key) \o key.rest,
      gcs_folder |-> key.folder,
      gcs_root_folder |-> key.folder[1]]

is_extractor_initial_trigger(file) ==
  /\ file.file_ext # "" /\ file.file_ext \in VideoExtension
  /\ file.file_name = INPUT_FILENAME

is_extractor_audio_trigger(file) ==
  /\ file.file_ext = "wav"
  /\ EndsWith(file.file_name, INPUT_EXTRACTION_AUDIO_FILENAME_SUFFIX)

is_extractor_video_trigger(file) ==
  /\ file.file_ext # "" /\ file.file_ext \in VideoExtension
  /\ EndsWith(file.file_name, INPUT_EXTRACTION_VIDEO_FILENAME_SUFFIX)

is_extractor_finalise_audio_trigger(file) ==
  EndsWith(file.file_name_ext, INPUT_EXTRACTION_FINALISE_AUDIO_FILE)

is_extractor_finalise_video_trigger(file) ==
  EndsWith(file.file_name_ext, INPUT_EXTRACTION_FINALISE_VIDEO_FILE)

is_extractor_finalise_trigger_Suffix(file) ==
  EndsWith(file.file_name_ext, INPUT_EXTRACTION_FINALISE_SUFFIX)

is_extractor_finalise_trigger(file) ==
  file.file_name_ext = INPUT_EXTRACTION_FINALISE_FILE

is_extractor_split_segment_trigger(file) ==
  EndsWith(file.file_name_ext, INPUT_EXTRACTION_SPLIT_SEGMENT_SUFFIX)

\* is_extractor_combine_segment_trigger reads
\* ConfigService.INPUT_EXTRACTION_COMBINE_SUFFIX, which config.py does not
\* define: evaluating it raises AttributeError for every file
is_extractor_combine_segment_trigger_raises(file) == TRUE

is_combiner_initial_trigger(file) == file.file_name_ext = INPUT_RENDERING_FILE

is_combiner_render_trigger(file) ==
  EndsWith(file.file_name_ext, INPUT_RENDERING_FILE)

is_combiner_finalise_trigger(file) ==
  EndsWith(file.file_name_ext, INPUT_RENDERING_FINALISE_FILE)

\* the stage predicates of TriggerFile that hold of a file
Triggers(file) ==
  {t \in {"extractor_initial", "extractor_audio", "extractor_video",
          "extractor_finalise_audio", "extractor_finalise_video",
          "extractor_finalise", "extractor_split_segment",
          "combiner_initial", "combiner_render", "combiner_finalise"} :
     CASE t = "extractor_initial" -> is_extractor_initial_trigger(file)
       [] t = "extractor_audio" -> is_extractor_audio_trigger(file)
       [] t = "extractor_video" -> is_extractor_video_trigger(file)
       [] t = "extractor_finalise_audio" ->
            is_extractor_finalise_audio_trigger(file)
       [] t = "extractor_finalise_video" ->
            is_extractor_finalise_video_trigger(file)
       [] t = "extractor_finalise" -> is_extractor_finalise_trigger(file)
       [] t = "extractor_split_segment" ->
            is_extractor_split_segment_trigger(file)
       [] t = "combiner_initial" -> is_combiner_initial_trigger(file)
       [] t = "combiner_render" -> is_combiner_render_trigger(file)
       [] t = "combiner_finalise" -> is_combiner_finalise_trigger(file)}

\* the keys an upload event can carry
RootPieces == {"video", "1"}

NameTokens == {"input", "_aaa", "_vvv", "audio", "video", "extract", "_"}

LastTokens == {".mp4", ".wav", ".txt", "render.json", "split.json",
               "finalise.txt", "data"}

\* root folder names: the pieces between "--", the timestamp last but one
Roots ==
  {[i \in 1..n |-> IF i = n - 1 THEN timestamp ELSE "video"] :
     n \in 2..MaxRootPieces, timestamp \in RootPieces}

Folders == {<<>>} \cup {<<root>> : root \in Roots}
             \cup {<<root, <<OUTPUT_ANALYSIS_CHUNKS_DIR>>>> : root \in Roots}

NumberPrefixes == {<<0, 0>>, <<1, 1>>}

ObjectNames == UNION {[1..n -> NameTokens] : n \in 0..MaxNameTokens}

TrgInit ==
  /\ trgKey = <<>> /\ trgFile = <<>> /\ trgTriggers = {} /\ trgPc = "idle"
  /\ IdleExceptTrg

\* an object is finalised in the bucket and the event carries its key
gcs_file_uploaded ==
  /\ trgPc = "idle"
  /\ \E folder \in Folders, np \in NumberPrefixes, name \in ObjectNames :
       \E last \in LastTokens :
         trgKey' = Key(folder, np[1], np[2], Append(name, last))
  /\ trgPc' = "event"
  /\ UNCHANGED <<trgFile, trgTriggers, otherThanTrg>>

\* TriggerFile(filepath)
construct_trigger_file ==
  /\ trgPc = "event"
  /\ IF TriggerFile_raises(trgKey)
       THEN trgPc' = "raised" /\ UNCHANGED trgFile
       ELSE trgPc' = "constructed" /\ trgFile' = TriggerFile(trgKey)
  /\ UNCHANGED <<trgKey, trgTriggers, otherThanTrg>>

\* the is_*_trigger predicates of the stages, evaluated on the file
evaluate_triggers ==
  /\ trgPc = "constructed"
  /\ trgTriggers' = Triggers(trgFile)
  /\ trgPc' = "classified"
  /\ UNCHANGED <<trgKey, trgFile, otherThanTrg>>

TrgNext ==
  \/ gcs_file_uploaded
  \/ construct_trigger_file
  \/ evaluate_triggers

TrgSpec == TrgInit /\ [][TrgNext]_vars

Constructed == trgPc \in {"raised", "constructed", "classified"}

InVideoFolder(key) ==
  /\ key.folder # <<>>
  /\ Len(key.folder[1]) \in {3, 4}
  /\ key.folder[1][Len(key.folder[1]) - 1] = "1"

FinaliseTriggers == {"extractor_finalise_audio", "extractor_finalise_video",
                     "extractor_finalise"}

SharedByDesign(a, b) ==
  \/ {a, b} = {"combiner_initial", "combiner_render"}
  \/ \E f \in FinaliseTriggers : {a, b} = {f, "combiner_finalise"}

MaxVariants == 2
MaxDeliveries == 2

Dict(k, v) == [x \in {k} |-> v]

\* _video_variant_mapper: variant_dict.pop('variant_id', index)
variant_id_Index(index, variant_dict) == index

variant_id(index, variant_dict) ==
  IF variant_dict.variant_id = NoCount THEN index ELSE variant_dict.variant_id

\* initial_render: the ids of the variants of render.json, by position
VariantIds(request) ==
  [i \in DOMAIN request |-> variant_id(i - 1, request[i])]

\* initial_render: variant_destination_file_path
RenderRequestKey(id, count) ==
  Key(CombosFolder, id, count, <<"_">> \o INPUT_RENDERING_FILE)

\* initial_render: the requests uploaded before upload_gcs_file raises on a
\* name that exists (two variants with the same id), all of them otherwise
RECURSIVE initial_render_uploads(_, _, _)
initial_render_uploads(ids, i, objects) ==
  IF i > Len(ids) THEN [raised |-> FALSE, objects |-> objects]
  ELSE IF upload_gcs_file_raises(objects, RenderRequestKey(ids[i], Len(ids)))
  THEN [raised |-> TRUE, objects |-> objects]
  ELSE initial_render_uploads(
         ids, i + 1,
         upload_gcs_file(objects, RenderRequestKey(ids[i], Len(ids)),
                         Dict(0, <<"variant", ids[i], 0>>)))

\* _render_video_variant: horizontal_combo_name
CombosVideoKey(id) ==
  Key(CombosFolder, 0, 0, <<"combo_", ToString(id), "_h", ".mp4">>)

\* render: the variant of the request file and the key of rendered_combos
rendered_combos_key(request_content) ==
  variant_id(0, [variant_id |-> request_content[0][2]])

\* render: the files of combos_dir, as invocation `delivery` makes them
combos_dir_files(trigger, request_content, delivery) ==
  LET id == rendered_combos_key(request_content)
  IN  {Object(CombosVideoKey(id), Dict(id, <<"video", id, delivery>>)),
       Object(render_artifact(trigger), Dict(id, <<"combo", id, delivery>>))}

ContentOf(objects, key) == (CHOOSE o \in objects : o.key = key).content

\* finalise_render: the listing, in the order of the names (the aggregate
\* combos.json comes after the names that start with a digit)
ListedBefore(a, b) ==
  \/ a.tot # 0 /\ b.tot = 0
  \/ a.tot # 0 /\ b.tot # 0 /\ a.idx < b.idx

\* finalise_render: output[k] = v over the listed dictionaries, in order
finalise_render_output(objects) ==
  LET names == filter_files(ObjectKeys(objects), CombosFolder,
                             OUTPUT_COMBINATIONS_FILE)
      having(k) == {f \in names : k \in DOMAIN ContentOf(objects, f)}
      last(k) == CHOOSE f \in having(k) :
                   \A g \in having(k) : g = f \/ ListedBefore(g, f)
  IN  [k \in UNION {DOMAIN ContentOf(objects, f) : f \in names} |->
         ContentOf(objects, last(k))[k]]

\* the requests render.json can hold
Variant(id, fails) == [variant_id |-> id, fails |-> fails]

RenderJsons ==
  UNION {[1..n -> {Variant(id, fails) :
                     id \in {NoCount} \cup (0..(MaxVariants - 1)),
                     fails \in BOOLEAN}] : n \in 1..MaxVariants}

Deliveries == 1..MaxDeliveries

RndInit ==
  /\ rndRequest \in RenderJsons
  /\ rndStorage = {}
  /\ rndInitial = "triggered"
  /\ rndRender = [i \in DOMAIN rndRequest |-> [d \in Deliveries |-> "none"]]
  /\ rndFinal = [d \in Deliveries |-> "none"]
  /\ rndFirst = [i \in DOMAIN rndRequest |-> {}]
  /\ rndAggregated = {}
  /\ IdleExceptRnd

\* Combiner.initial_render
initial_render ==
  /\ rndInitial = "triggered"
  /\ LET uploads == initial_render_uploads(VariantIds(rndRequest), 1, rndStorage)
     IN  /\ rndStorage' = uploads.objects
         /\ rndInitial' = IF uploads.raised THEN "raised" ELSE "done"
  /\ UNCHANGED <<rndRequest, rndRender, rndFinal, rndFirst, rndAggregated,
                 otherThanRnd>>

RenderTrigger(i) ==
  RenderRequestKey(VariantIds(rndRequest)[i], Len(rndRequest))

\* the variant whose request object the event of variant i names
Requested(i) ==
  /\ RenderTrigger(i) \in ObjectKeys(rndStorage)
  /\ \A j \in 1..(i - 1) : RenderTrigger(j) # RenderTrigger(i)

VariantObjects(objects, i) ==
  {o \in objects :
     o.key \in {CombosVideoKey(VariantIds(rndRequest)[i]),
                render_artifact(RenderTrigger(i))}}

\* Combiner.render up to the upload of combos_dir
render_variant(i, d) ==
  /\ rndInitial \in {"done", "raised"}
  /\ Requested(i)
  /\ rndRender[i][d] = "none"
  /\ d > 1 => rndRender[i][d - 1] # "none"
  /\ IF rndRequest[i].fails
       THEN /\ rndRender' = [rndRender EXCEPT ![i][d] = "raised"]
            /\ UNCHANGED <<rndStorage, rndFirst>>
       ELSE /\ rndStorage' =
                 upload_gcs_dir(rndStorage,
                                combos_dir_files(RenderTrigger(i),
                                                 ContentOf(rndStorage, RenderTrigger(i)),
                                                 d))
            /\ rndRender' = [rndRender EXCEPT ![i][d] = "uploaded"]
            /\ rndFirst' = IF rndFirst[i] # {} THEN rndFirst
                           ELSE [rndFirst EXCEPT ![i] = VariantObjects(rndStorage', i)]
  /\ UNCHANGED <<rndRequest, rndInitial, rndFinal, rndAggregated, otherThanRnd>>

\* Combiner.check_finalise_render, the end of render
check_finalise_render(i, d) ==
  /\ rndRender[i][d] = "uploaded"
  /\ LET variants_count == render_variants_count(RenderTrigger(i))
         rendered_count == render_rendered_count(ObjectKeys(rndStorage), CombosFolder)
         marker == render_marker(variants_count, CombosFolder)
     IN  IF ~render_ready(rendered_count, variants_count)
         THEN /\ rndRender' = [rndRender EXCEPT ![i][d] = "done"]
              /\ UNCHANGED rndStorage
         ELSE IF upload_gcs_file_raises(rndStorage, marker)
         THEN /\ rndRender' = [rndRender EXCEPT ![i][d] = "raised"]
              /\ UNCHANGED rndStorage
         ELSE /\ rndRender' = [rndRender EXCEPT ![i][d] = "done"]
              /\ rndStorage' = upload_gcs_file(rndStorage, marker, <<>>)
  /\ UNCHANGED <<rndRequest, rndInitial, rndFinal, rndFirst, rndAggregated,
                 otherThanRnd>>

\* Combiner.finalise_render
finalise_render(d) ==
  /\ render_marker(Len(rndRequest), CombosFolder) \in ObjectKeys(rndStorage)
  /\ rndFinal[d] = "none"
  /\ d > 1 => rndFinal[d - 1] \in {"done", "raised"}
  /\ LET aggregate == render_aggregate(CombosFolder)
     IN  IF upload_gcs_file_raises(rndStorage, aggregate)
         THEN /\ rndFinal' = [rndFinal EXCEPT ![d] = "raised"]
              /\ UNCHANGED rndStorage
         ELSE /\ rndFinal' = [rndFinal EXCEPT ![d] = "done"]
              /\ rndStorage' = upload_gcs_file(rndStorage, aggregate,
                                               finalise_render_output(rndStorage))
  /\ rndAggregated' = IF d = 1 THEN rndStorage' ELSE rndAggregated
  /\ UNCHANGED <<rndRequest, rndInitial, rndRender, rndFirst, otherThanRnd>>

RndNext ==
  \/ initial_render
  \/ \E i \in 1..MaxVariants, d \in Deliveries :
       i \in DOMAIN rndRequest /\ render_variant(i, d)
  \/ \E i \in 1..MaxVariants, d \in Deliveries :
       i \in DOMAIN rndRequest /\ check_finalise_render(i, d)
  \/ \E d \in Deliveries : finalise_render(d)

RndSpec == RndInit /\ [][RndNext]_vars

\* every event of the run has been handled once (duplicates may be under way)
HandledOnce ==
  /\ rndInitial \in {"done", "raised"}
  /\ \A i \in DOMAIN rndRequest :
       Requested(i) => rndRender[i][1] \in {"done", "raised"}
  /\ render_marker(Len(rndRequest), CombosFolder) \in ObjectKeys(rndStorage)
       => rndFinal[1] \in {"done", "raised"}

Rendered == {i \in DOMAIN rndRequest : Requested(i) /\ ~rndRequest[i].fails}

\* the objects of a run in which every event is handled exactly once
HandledOnceKeys ==
  {RenderTrigger(i) : i \in {j \in DOMAIN rndRequest : Requested(j)}}
    \cup {CombosVideoKey(VariantIds(rndRequest)[i]) : i \in Rendered}
    \cup {render_artifact(RenderTrigger(i)) : i \in Rendered}
    \cup (IF Cardinality(Rendered) = Len(rndRequest)
          THEN {render_marker(Len(rndRequest), CombosFolder),
                render_aggregate(CombosFolder)}
          ELSE {})

C16_AggregateHoldsEveryVariant ==
  render_aggregate(CombosFolder) \in ObjectKeys(rndStorage) =>
    LET ids == VariantIds(rndRequest)
        aggregate == ContentOf(rndStorage, render_aggregate(CombosFolder))
    IN  /\ DOMAIN aggregate = {ids[i] : i \in DOMAIN rndRequest}
        /\ Cardinality(DOMAIN aggregate) = Len(rndRequest)
        /\ \A i \in DOMAIN rndRequest :
             aggregate[ids[i]] =
               ContentOf(rndStorage, render_artifact(RenderTrigger(i)))[ids[i]]

\* the aggregate of a run of two variants
C16_Witness ==
  /\ Len(rndRequest) = 2
  /\ rndFinal[1] = "done"
  /\ render_aggregate(CombosFolder) \in ObjectKeys(rndStorage)

\* the per-variant render requests in the run's folder
RenderRequests_Stored ==
  {k \in ObjectKeys(rndStorage) :
     k.folder = CombosFolder /\ k.rest = <<"_">> \o INPUT_RENDERING_FILE}

\* C34: once initial_render has ended, the folder holds exactly one render
\* request per variant of render.json, named after the variant's id, and every
\* request's name carries the number of variants as its total
C34_OneRequestPerVariant ==
  rndInitial \in {"done", "raised"} =>
    /\ Cardinality(RenderRequests_Stored) = Len(rndRequest)
    /\ \A i \in DOMAIN rndRequest : RenderTrigger(i) \in RenderRequests_Stored
    /\ \A k \in RenderRequests_Stored : k.tot = Len(rndRequest)
    /\ rndInitial = "done"


(***************************************************************************)
(* The consumers of the fan-in markers, each with duplicate deliveries:    *)
(* finalise_render of a render run, finalise_extraction of an extraction.  *)
(***************************************************************************)
StagesInit == AnnInit \/ RndInit

StagesNext == AnnNext \/ RndNext

StagesSpec == StagesInit /\ [][StagesNext]_vars

\* C15: when the marker is handled again after a first handling that wrote
\* its outputs, the objects in storage stay exactly as the first handling left
\* them
C15_MarkerConsumerIsIdempotent ==
  /\ (annRun >= 2 /\ annPrev = "written") => annStorage = annFirst
  /\ \A d \in DOMAIN rndFinal :
       (d > 1 /\ rndFinal[d] \in {"done", "raised"})
         => rndStorage = rndAggregated

\* the second finalise_render of a run of two variants has ended
C15_Witness ==
  /\ Len(rndRequest) = 2
  /\ rndFinal[1] = "done" /\ rndFinal[2] = "raised"
  /\ render_aggregate(CombosFolder) \in ObjectKeys(rndStorage)

\* ---- one render invocation and its ad assets ----

\* Utils.RenderFormatType, in the order _render_video_variant renders them
RenderFormatType == <<"horizontal", "square", "vertical">>

\* _render_video_variant: horizontal first, then formats_to_render in
\* insertion order
formats_to_render(formats) ==
  SelectSeq(RenderFormatType, LAMBDA f : f = "horizontal" \/ f \in formats)

\* _generate_text_assets: the except clause lets nothing out
_generate_text_assets_raises_Uncaught(response) == response = "raise"

_generate_text_assets_raises(response) == FALSE

\* _generate_text_assets: the rows of a response whose text the pattern
\* matches; None for an exception, an answer without text and a text with an
\* entry the pattern does not match (result[0] raises, which is caught)
_generate_text_assets(response) ==
  IF response = "text" THEN "texts" ELSE "None"

\* _identify_and_extract_key_frames: the timestamps found in the answer
key_frame_results(response) == IF response = "text" THEN {"key_frame"} ELSE {}

\* _generate_image_assets: the image files written to the assets folder; the
\* thumbnails come from ffmpeg alone, a key frame from ffmpeg at a timestamp
\* of the answer
image_files(response, thumbnails_ok, key_frames_ok) ==
  IF ~thumbnails_ok THEN {}
  ELSE {"thumbnail"} \cup (IF key_frames_ok THEN key_frame_results(response) ELSE {})

\* _generate_image_assets: the listed assets; assets stays [] when a ffmpeg
\* command raised inside the try block
_generate_image_assets(response, thumbnails_ok, key_frames_ok) ==
  IF ~thumbnails_ok THEN {}
  ELSE IF key_frame_results(response) # {} /\ ~key_frames_ok THEN {}
  ELSE image_files(response, thumbnails_ok, key_frames_ok)

\* the contents of objects of the combos folder
AssetContent(kind, result) == [kind |-> kind, result |-> result]

NoResult == [variants |-> {}, texts |-> "absent", images |-> <<>>]

\* _render_format: format_name = combo_<id>_<first letter of the format>
FormatVideoKey(id, format_type) ==
  Key(CombosFolder, 0, 0, <<"combo_", ToString(id), "_", format_type, ".mp4">>)

\* _generate_image_assets: image_assets_path/<file>
ImageAssetKey(id, format_type, file) ==
  Key(CombosFolder, 0, 0, <<"combo_", ToString(id), "assets", format_type, file>>)

\* output_dir of _render_video_variant: the videos rendered so far and the
\* image files extracted from them
output_dir(id, paths) ==
  {Object(FormatVideoKey(id, f), AssetContent("video", NoResult)) : f \in DOMAIN paths}
    \cup UNION {{Object(ImageAssetKey(id, f, file), AssetContent("image", NoResult)) :
                   file \in paths[f].files} : f \in DOMAIN paths}

\* _render_video_variant: result, 'texts' only for text assets, 'images' only
\* for the formats that have assets
variant_result(paths, text_assets) ==
  [variants |-> DOMAIN paths,
   texts    |-> IF text_assets = "None" THEN "absent" ELSE text_assets,
   images   |-> [f \in {g \in DOMAIN paths : paths[g].images # {}} |-> paths[f].images]]

\* the request file the invocation was triggered by: <id>-<count>_render.json
AssetsTrigger == RenderRequestKey(0, 1)

\* a request of one variant: its render settings
AstInit ==
  /\ IdleExceptAst
  /\ astVariant \in [generate_text_assets : BOOLEAN, generate_image_assets : BOOLEAN,
                     formats : SUBSET {"square", "vertical"}]
  /\ astTodo = formats_to_render(astVariant.formats)
  /\ astPaths = <<>>
  /\ astAnswers = <<>>
  /\ astStorage = {Object(AssetsTrigger, AssetContent("request", NoResult))}
  /\ astPc = "rendering"

\* _render_video_variant (horizontal) and _render_format (square, vertical):
\* ffmpeg renders the format or raises; with generate_image_assets the videos
\* so far are uploaded and the image assets of the format are generated
_render_format(format_type) ==
  /\ astPc = "rendering"
  /\ astTodo # <<>>
  /\ format_type = Head(astTodo)
  /\ \E ffmpeg_ok \in BOOLEAN :
       IF ~ffmpeg_ok
       THEN /\ astPc' = "raised"
            /\ UNCHANGED <<astVariant, astTodo, astPaths, astAnswers, astStorage>>
       ELSE /\ astTodo' = Tail(astTodo)
            /\ IF astVariant.generate_image_assets
               THEN \E response \in Responses, thumbnails_ok \in BOOLEAN, key_frames_ok \in BOOLEAN :
                      LET rendered == astPaths @@ (format_type :> [images |-> {}, files |-> {}])
                      IN  /\ astStorage' = upload_gcs_dir(astStorage, output_dir(0, rendered))
                          /\ astAnswers' = astAnswers @@ (format_type :> response)
                          /\ astPaths' = astPaths @@ (format_type :>
                               [images |-> _generate_image_assets(response, thumbnails_ok, key_frames_ok),
                                files  |-> image_files(response, thumbnails_ok, key_frames_ok)])
               ELSE /\ astPaths' = astPaths @@ (format_type :> [images |-> {}, files |-> {}])
                    /\ UNCHANGED <<astAnswers, astStorage>>
            /\ UNCHANGED <<astVariant, astPc>>
  /\ UNCHANGED otherThanAst

\* the rest of _render_video_variant and of Combiner.render: the output folder
\* is uploaded, the text assets are generated, the result is written to
\* <id>-<count>_combos.json and the folder is uploaded again
render_result_file ==
  /\ astPc = "rendering"
  /\ astTodo = <<>>
  /\ LET videos == upload_gcs_dir(astStorage, output_dir(0, astPaths))
         trigger == AssetsTrigger
     IN  IF astVariant.generate_text_assets
         THEN \E response \in Responses :
                /\ astAnswers' = astAnswers @@ ("texts" :> response)
                /\ IF _generate_text_assets_raises(response)
                   THEN /\ astStorage' = videos
                        /\ astPc' = "raised"
                   ELSE /\ astStorage' = upload_gcs_dir(videos,
                             {Object(render_artifact(trigger),
                                     AssetContent("result",
                                       variant_result(astPaths, _generate_text_assets(response))))})
                        /\ astPc' = "uploaded"
         ELSE /\ astStorage' = upload_gcs_dir(videos,
                   {Object(render_artifact(trigger),
                           AssetContent("result", variant_result(astPaths, "None")))})
              /\ astPc' = "uploaded"
              /\ UNCHANGED astAnswers
  /\ UNCHANGED <<astVariant, astTodo, astPaths>>
  /\ UNCHANGED otherThanAst

\* Combiner.check_finalise_render at the end of render
check_finalise_render_assets ==
  /\ astPc = "uploaded"
  /\ LET variants_count == render_variants_count(AssetsTrigger)
         rendered_count == render_rendered_count(ObjectKeys(astStorage), CombosFolder)
         marker == render_marker(variants_count, CombosFolder)
     IN  IF ~render_ready(rendered_count, variants_count)
         THEN /\ astPc' = "done"
              /\ UNCHANGED astStorage
         ELSE IF upload_gcs_file_raises(astStorage, marker)
         THEN /\ astPc' = "raised"
              /\ UNCHANGED astStorage
         ELSE /\ astStorage' = upload_gcs_file(astStorage, marker, AssetContent("marker", NoResult))
              /\ astPc' = "done"
  /\ UNCHANGED <<astVariant, astTodo, astPaths, astAnswers>>
  /\ UNCHANGED otherThanAst

AstNext ==
  \/ \E f \in {"horizontal", "square", "vertical"} : _render_format(f)
  \/ render_result_file
  \/ check_finalise_render_assets

AstSpec == AstInit /\ [][AstNext]_vars

\* ---------------------------------------------------------------------------
\* Claims about failing model calls

\* the segment annotation and one render invocation, each from its own start
ModelCallsInit == AnnInit \/ AstInit

ModelCallsNext == AnnNext \/ AstNext

ModelCallsSpec == ModelCallsInit /\ [][ModelCallsNext]_vars

ModelFailures == {"raise", "blocked", "garbled"}

\* the result file of the render invocation, as stored
StoredResult == ContentOf(astStorage, render_artifact(AssetsTrigger)).result

\* C19: a failing or unparsable model answer never ends an invocation without
\* its end artifact. The call of a segment whose description failed returns
\* empty texts, and data.json is written with one record per segment whatever
\* the coherence pass answered. A render invocation raises only before the
\* text call (on ffmpeg), and one that got through its ffmpeg commands has
\* written the variant's result file with every rendered format, without
\* 'texts' when the text answer failed and with no key frame among the images
\* of a format whose key-frame answer failed.
C19_ModelFailureStillWritesArtifact ==
  /\ \A i \in DOMAIN annRows :
       annResponse[i] \in ModelFailures =>
         /\ annPc[i] \in {"returned", "collected"}
         /\ annResult[i] = <<EmptyText, EmptyText>>
  /\ (annBatch = "written" /\ annRun = 1) =>
       /\ DataKey \in ObjectKeys(annStorage)
       /\ ContentOf(annStorage, DataKey) = data_json(descriptions, keywords)
       /\ Len(ContentOf(annStorage, DataKey)) = Len(annRows)
  /\ (astPc = "raised" /\ astTodo = <<>>) => "texts" \notin DOMAIN astAnswers
  /\ astPc \in {"uploaded", "done"} =>
       /\ render_artifact(AssetsTrigger) \in ObjectKeys(astStorage)
       /\ StoredResult.variants = {"horizontal"} \cup astVariant.formats
       /\ ("texts" \in DOMAIN astAnswers /\ astAnswers["texts"] \in ModelFailures)
            => StoredResult.texts = "absent"
       /\ \A f \in DOMAIN astAnswers :
            (f # "texts" /\ astAnswers[f] \in ModelFailures) =>
              \/ f \notin DOMAIN StoredResult.images
              \/ StoredResult.images[f] = {"thumbnail"}

\* a render invocation whose text call raised and whose key-frame answer for
\* the horizontal format was unparsable: its result file is in storage
\* without texts and with the thumbnail as the only horizontal image
C19_Witness ==
  /\ astPc = "done"
  /\ "texts" \in DOMAIN astAnswers /\ astAnswers["texts"] = "raise"
  /\ "horizontal" \in DOMAIN astAnswers /\ astAnswers["horizontal"] = "garbled"
  /\ render_artifact(AssetsTrigger) \in ObjectKeys(astStorage)
  /\ StoredResult.texts = "absent"
  /\ StoredResult.images = [f \in {"horizontal"} |-> {"thumbnail"}]

(***************************************************************************)
(* Extractor.initial_extract: process_audio and process_video run as two   *)
(* processes of one pool over the same output_dir; each cuts its chunks    *)
(* into output_dir/analysis_chunks, renames them and uploads output_dir.   *)
(***************************************************************************)
Media == {"audio", "video"}

\* a file of output_dir: an input, the empty subtitles file, or a chunk
\* {index}{suffix}{ext} (total 0) renamed to {index}-{total}{suffix}{ext}
LocalFile(kind, medium, index, tot) ==
  [kind |-> kind, medium |-> medium, index |-> index, total |-> tot]

\* what initial_extract starts from: the video is under or over its size
\* limit; the audio track is absent (or transcription is off), or under or
\* over its duration limit
ExtInputs ==
  {i \in [Media -> {"absent", "under", "over"}] : i["video"] # "absent"}

\* tmp_dir after download_gcs_file and extract_audio
InitialFiles(input) ==
  {LocalFile("input", m, 0, 0) : m \in {n \in Media : input[n] # "absent"}}

ExtInit ==
  /\ IdleExceptExt
  /\ extInput \in ExtInputs
  /\ extDir = InitialFiles(extInput)
  /\ extStorage = InitialFiles(extInput)
  /\ extProc = [m \in Media |-> [pc |-> "start", file_count |-> 0, renamed |-> 0,
                                 direct |-> FALSE]]

\* process_audio / process_video up to the loop: without audio the empty
\* subtitles file is written and uploaded by itself; an input under its limit
\* is its own result
start_chunks(m) ==
  /\ extProc[m].pc = "start"
  /\ CASE extInput[m] = "absent" ->
            /\ extDir' = extDir \cup {LocalFile("subtitles", m, 0, 0)}
            /\ extStorage' = extStorage \cup {LocalFile("subtitles", m, 0, 0)}
            /\ extProc' = [extProc EXCEPT ![m].pc = "done"]
       [] extInput[m] = "under" ->
            /\ extProc' = [extProc EXCEPT ![m].pc = "upload"]
            /\ UNCHANGED <<extDir, extStorage>>
       [] extInput[m] = "over" ->
            /\ extProc' = [extProc EXCEPT ![m].pc = "loop"]
            /\ UNCHANGED <<extDir, extStorage>>
  /\ UNCHANGED <<extInput, otherThanExt>>

\* one turn of the loop of _get_audio_chunks / _get_video_chunks: ffmpeg
\* writes {file_count}{suffix}{ext}; a video chunk of duration 0 is removed
\* and ends the loop; otherwise the loop goes on until the offset has reached
\* the duration
cut_local_chunk(m) ==
  /\ extProc[m].pc = "loop"
  /\ extProc[m].file_count < MaxChunks
  /\ \E cut_ok \in BOOLEAN, zero \in BOOLEAN, reached \in BOOLEAN :
       IF ~cut_ok
       THEN /\ extProc' = [extProc EXCEPT ![m].pc = "raised"]
            /\ UNCHANGED extDir
       ELSE IF m = "video" /\ zero
       THEN /\ extProc' = [extProc EXCEPT ![m].pc = "rename"]
            /\ UNCHANGED extDir
       ELSE /\ extDir' = extDir \cup {LocalFile("chunk", m, extProc[m].file_count + 1, 0)}
            /\ extProc' = [extProc EXCEPT ![m].file_count = @ + 1,
                                          ![m].pc = IF reached THEN "rename" ELSE "loop"]
  /\ UNCHANGED <<extInput, extStorage, otherThanExt>>

\* Utils.rename_chunks, one os.rename at a time ('if file_count:')
rename_local_chunk(m) ==
  /\ extProc[m].pc = "rename"
  /\ IF extProc[m].renamed = extProc[m].file_count
     THEN /\ extProc' = [extProc EXCEPT ![m].pc = "upload"]
          /\ UNCHANGED extDir
     ELSE LET index == extProc[m].renamed + 1
          IN  /\ extDir' = (extDir \ {LocalFile("chunk", m, index, 0)})
                             \cup {LocalFile("chunk", m, index, extProc[m].file_count)}
              /\ extProc' = [extProc EXCEPT ![m].renamed = index]
  /\ UNCHANGED <<extInput, extStorage, otherThanExt>>

\* len(result) in _process_video_with_audio / process_video
chunks_size(m) ==
  IF extInput[m] = "under" THEN 1 ELSE extProc[m].file_count

\* upload_gcs_dir(source_directory=output_dir): every file of the directory
uploaded_files(dir, m) == dir

\* the rest of _process_video_with_audio / process_video: output_dir is
\* uploaded, and with one chunk the input is analysed at once
upload_output_dir(m) ==
  /\ extProc[m].pc = "upload"
  /\ extStorage' = extStorage \cup uploaded_files(extDir, m)
  /\ extProc' = [extProc EXCEPT ![m].pc = "done", ![m].direct = (chunks_size(m) = 1)]
  /\ UNCHANGED <<extInput, extDir, otherThanExt>>

ExtNext ==
  \/ \E m \in Media : start_chunks(m)
  \/ \E m \in Media : cut_local_chunk(m)
  \/ \E m \in Media : rename_local_chunk(m)
  \/ \E m \in Media : upload_output_dir(m)

ExtSpec == ExtInit /\ [][ExtNext]_vars

\* C21: every chunk object in storage is named {index}-{total}..., with index
\* in 1..total, and total is the number of chunks its process produced
C21_ChunksStoredUnderFinalNames ==
  \A f \in extStorage :
    f.kind = "chunk" =>
      /\ f.total # 0
      /\ f.index \in 1..f.total
      /\ f.total = extProc[f.medium].file_count

(***************************************************************************)
(* The optimiser's sweep over up to MaxSweepShots shots in time order.     *)
(***************************************************************************)
MaxSweepShots == 3

\* shot annotations in time order, each of positive duration
SweepAnnotations ==
  {a \in UNION {[1..n -> {r \in RawShot : r.start < r.end}] : n \in 0..MaxSweepShots} :
     \A i \in DOMAIN a : i > 1 => a[i - 1].end <= a[i].start}

SweepInit ==
  /\ rawShots \in SweepAnnotations
  /\ utterances \in Transcriptions
  /\ shots = <<>> /\ avSegments = <<>> /\ presplit = <<>> /\ splitMarkers = <<>>
  /\ segPc = "analysed"
  /\ IdleExceptSeg

SweepNext ==
  \/ finalise_extraction
  \/ finalise_extraction_raises

SweepSpec == SweepInit /\ [][SweepNext]_vars

\* the position in the shots table of the last shot of row i
RECURSIVE RowEnd(_, _)
RowEnd(table, i) ==
  IF i = 0 THEN 0 ELSE RowEnd(table, i - 1) + Len(table[i].visual_segment_ids)

\* the row that holds the shot at position k
RowOfShot(k) ==
  CHOOSE i \in DOMAIN avSegments :
    RowEnd(avSegments, i - 1) < k /\ k <= RowEnd(avSegments, i)

AudioOf(k) == Range(shots[k].audio_segment_ids)

ShortSilent(k) == AudioOf(k) = {} /\ shots[k].end_s - shots[k].start_s <= 1

\* the audio ids of the shots of k's row up to k
AccumulatedAudio(k) ==
  UNION {AudioOf(j) : j \in {h \in 1..k : RowOfShot(h) = RowOfShot(k)}}

\* C24: the rows hold the shots in order, each row a run of consecutive shots;
\* a shot is in the row of the shot before it exactly when it shares an audio
\* id with what that row has accumulated, or it is a short silent shot, the
\* row has accumulated no audio and the shot before it is a short silent shot
\* too; the last run is a row as well, and the rows are numbered '1','2',...
C24_SweepAppendsExactlyWhenContinued ==
  Optimised =>
    /\ RowEnd(avSegments, Len(avSegments)) = Len(shots)
    /\ \A i \in DOMAIN avSegments :
         /\ avSegments[i].av_segment_id = SegmentId(i)
         /\ Len(avSegments[i].visual_segment_ids) > 0
         /\ \A n \in DOMAIN avSegments[i].visual_segment_ids :
              avSegments[i].visual_segment_ids[n]
                = shots[RowEnd(avSegments, i - 1) + n].shot_id
    /\ \A k \in 2..Len(shots) :
         (RowOfShot(k) = RowOfShot(k - 1))
           <=> \/ AudioOf(k) \cap AccumulatedAudio(k - 1) # {}
               \/ ShortSilent(k) /\ AccumulatedAudio(k - 1) = {} /\ ShortSilent(k - 1)

\* three shots in two rows: two short silent shots merged, then a shot with
\* speech
C24_Witness ==
  /\ Optimised /\ Len(shots) = 3 /\ Len(avSegments) = 2
  /\ ShortSilent(1) /\ ShortSilent(2) /\ AudioOf(3) # {}
  /\ RowOfShot(2) = 1 /\ RowOfShot(3) = 2

\* a short silent shot between two shots with speech that share no utterance
BetweenAudioRuns(k) ==
  /\ 1 < k /\ k < Len(shots)
  /\ ShortSilent(k)
  /\ AudioOf(k - 1) # {} /\ AudioOf(k + 1) # {}
  /\ AudioOf(k - 1) \cap AudioOf(k + 1) = {}

\* C25 as stated: such a shot is in the row of one of its neighbours
C25_ShortSilentShotJoinsNeighbour ==
  Optimised =>
    \A k \in DOMAIN shots :
      BetweenAudioRuns(k) =>
        RowOfShot(k) \in {RowOfShot(k - 1), RowOfShot(k + 1)}

\* C25 as amended: such a shot is in neither neighbour's row; its row holds
\* no audio and only short silent shots
C25_ShortSilentShotKeepsOwnSegment ==
  Optimised =>
    \A k \in DOMAIN shots :
      BetweenAudioRuns(k) =>
        /\ RowOfShot(k) \notin {RowOfShot(k - 1), RowOfShot(k + 1)}
        /\ avSegments[RowOfShot(k)].audio_segment_ids = {}
        /\ \A j \in DOMAIN shots : RowOfShot(j) = RowOfShot(k) => ShortSilent(j)

\* speech, a short silent shot, other speech: three rows
C25_Witness ==
  /\ Optimised /\ Len(shots) = 3
  /\ BetweenAudioRuns(2)
  /\ Len(avSegments) = 3


\* ---------------------------------------------------------------------------
\* Attaching labels, objects, logos and text to the segments
\* (video/video.py get_*_data, extractor/extractor.py _annotate_segments)
\* ---------------------------------------------------------------------------

MaxEntities == 2

MaxEntityTime == 2

EntityKinds == {"labels", "objects", "logos", "text"}

EntityValues == {"a", "b"}

\* confidences in tenths; the threshold's default is 0.7
CONFIG_ANNOTATIONS_CONFIDENCE_THRESHOLD == 7

Confidences == {CONFIG_ANNOTATIONS_CONFIDENCE_THRESHOLD, CONFIG_ANNOTATIONS_CONFIDENCE_THRESHOLD + 1}

\* an annotation of the results: what was detected, when, how confidently;
\* a detection in a single frame has no duration
Entities ==
  {[value |-> v, start_s |-> a, end_s |-> b, confidence |-> c] :
     v \in EntityValues, a \in 0..MaxEntityTime, b \in 0..MaxEntityTime,
     c \in Confidences}

\* the segments the optimiser made of the video: one, or two that meet at a
\* cut
SegmentTables ==
  {<<[av_segment_id |-> SegmentId(1), start_s |-> 0, end_s |-> MaxEntityTime]>>}
    \cup {<<[av_segment_id |-> SegmentId(1), start_s |-> 0, end_s |-> c],
            [av_segment_id |-> SegmentId(2), start_s |-> c, end_s |-> MaxEntityTime]>> :
          c \in 1..(MaxEntityTime - 1)}

\* the annotation results list each kind on its own
KindOrder == <<"labels", "objects", "logos", "text">>

\* the entities of one kind among n annotations, in their order
OfKind(kinds, entities, kind) ==
  LET mine == SelectSeq([i \in DOMAIN kinds |-> i], LAMBDA i : KindOrder[kinds[i]] = kind)
  IN  [i \in DOMAIN mine |-> entities[mine[i]]]

EntInit ==
  /\ entSegments \in SegmentTables
  /\ \E n \in 0..MaxEntities :
       \E kinds \in {k \in [1..n -> DOMAIN KindOrder] :
                       \A i \in 1..n : i > 1 => k[i - 1] <= k[i]} :
         \E entities \in [1..n -> {e \in Entities : e.start_s <= e.end_s}] :
           entResults = [kind \in EntityKinds |-> OfKind(kinds, entities, kind)]
  /\ entData = <<>>
  /\ entAttached = <<>>
  /\ entPc = "results"
  /\ IdleExceptEnt

\* the mutant keeps only the rows that start within the range
range_mask_StartsWithin(row, start_time, end_time) ==
  row.start_s >= start_time /\ row.start_s < end_time

\* the rows _identify_segments selects: those that start at or before the
\* range's start and end after it, and those that start within the range
range_mask(row, start_time, end_time) ==
  \/ (row.start_s <= start_time /\ row.end_s > start_time)
  \/ (row.start_s >= start_time /\ row.start_s < end_time)

\* _identify_segments with key av_segment_id
identify_av_segments(start_time, end_time, data) ==
  IF data = <<>> THEN <<>>
  ELSE LET result == SelectSeq(data, LAMBDA row : range_mask(row, start_time, end_time))
       IN  [i \in DOMAIN result |-> result[i].av_segment_id]

\* the row get_shot_labels_data and its siblings append for an entity
EntityRow(entity, optimised_av_segments) ==
  [value |-> entity.value,
   av_segment_ids |-> identify_av_segments(entity.start_s, entity.end_s,
                                           optimised_av_segments),
   start_s |-> entity.start_s,
   end_s |-> entity.end_s,
   duration_s |-> entity.end_s - entity.start_s,
   confidence |-> entity.confidence]

entity_data(entities, optimised_av_segments) ==
  [i \in DOMAIN entities |-> EntityRow(entities[i], optimised_av_segments)]

\* the orders in which sort_values can leave the rows of a kind
sorted_data(kind) ==
  sort_values(entity_data(entResults[kind], entSegments), DOMAIN entResults[kind])

\* get_shot_labels_data, get_object_tracking_data, get_logo_detection_data and
\* get_text_detection_data: a row per entity, then sort_values
get_entity_data ==
  /\ entPc = "results"
  /\ \E labels \in sorted_data("labels"), objects \in sorted_data("objects"),
        logos \in sorted_data("logos"), text \in sorted_data("text") :
       entData' = [kind \in EntityKinds |->
                     CASE kind = "labels" -> labels
                       [] kind = "objects" -> objects
                       [] kind = "logos" -> logos
                       [] kind = "text" -> text]
  /\ entPc' = "dataframes"
  /\ UNCHANGED <<entSegments, entResults, entAttached, otherThanEnt>>

\* temp[confidence > threshold]
above_threshold(confidence) == confidence > CONFIG_ANNOTATIONS_CONFIDENCE_THRESHOLD

\* list(set(entities)): each value once, in the order the set iterates
list_of_set(values, order) == SelectSeq(order, LAMBDA v : v \in values)

\* _get_entities: the rows whose av_segment_ids hold the segment's id and whose
\* confidence is above the threshold; sorting them by confidence only
\* reorders what set() then collects
_get_entities(data, search_value, order) ==
  LET temp == SelectSeq(data, LAMBDA row : search_value \in Range(row.av_segment_ids))
      kept == SelectSeq(temp, LAMBDA row : above_threshold(row.confidence))
  IN  list_of_set({kept[i].value : i \in DOMAIN kept}, order)

\* the orders in which a set of the values can iterate
ValueOrders ==
  {order \in [1..Cardinality(EntityValues) -> EntityValues] : Range(order) = EntityValues}

\* _annotate_segments: for every row, the entities of each kind
_annotate_segments ==
  /\ entPc = "dataframes"
  /\ \E order \in ValueOrders :
       entAttached' =
         [kind \in EntityKinds |->
            [i \in DOMAIN entSegments |->
               _get_entities(entData[kind], entSegments[i].av_segment_id, order)]]
  /\ entPc' = "annotated"
  /\ UNCHANGED <<entSegments, entResults, entData, otherThanEnt>>

EntNext == get_entity_data \/ _annotate_segments

EntSpec == EntInit /\ [][EntNext]_vars

\* the overlap of an entity and a segment: the entity starts at or before the
\* segment's start and ends after it, or it starts within the segment's span
EntityOverlapsSegment(entity, segment) ==
  \/ entity.start_s <= segment.start_s /\ entity.end_s > segment.start_s
  \/ segment.start_s <= entity.start_s /\ entity.start_s < segment.end_s

\* the values of the entities of a kind that overlap a segment with a
\* confidence above the threshold: a set, whatever the entities' order
ConfidentOverlapping(kind, segment) ==
  {e.value : e \in {x \in Range(entResults[kind]) :
                      /\ EntityOverlapsSegment(x, segment)
                      /\ x.confidence > CONFIG_ANNOTATIONS_CONFIDENCE_THRESHOLD}}

\* C30: for each kind of entity on its own, the values attached to a segment
\* are exactly those of the kind's entities that overlap the segment with a
\* confidence above the threshold, each value once; they are determined by
\* the set of the kind's entities, not by the order they came in
C30_AttachedExactlyConfidentOverlaps ==
  entPc = "annotated" =>
    \A kind \in EntityKinds : \A i \in DOMAIN entSegments :
      /\ Range(entAttached[kind][i]) = ConfidentOverlapping(kind, entSegments[i])
      /\ Len(entAttached[kind][i]) = Cardinality(Range(entAttached[kind][i]))

\* two labels 'a' seen confidently, one in the first of two segments only
\* and one across both: each segment has the label once, and no text
C30_Witness ==
  /\ entPc = "annotated" /\ Len(entSegments) = 2
  /\ Len(entResults["labels"]) = 2
  /\ \A n \in 1..2 :
       /\ entResults["labels"][n].value = "a"
       /\ above_threshold(entResults["labels"][n].confidence)
       /\ EntityOverlapsSegment(entResults["labels"][n], entSegments[1])
  /\ ~EntityOverlapsSegment(entResults["labels"][1], entSegments[2])
  /\ EntityOverlapsSegment(entResults["labels"][2], entSegments[2])
  /\ entAttached["labels"][1] = <<"a">>
  /\ entAttached["labels"][2] = <<"a">>
  /\ entAttached["text"][1] = <<>>

\* ---------------------------------------------------------------------------
\* The join of the audio and the video analysis
\* (extractor/extractor.py Extractor.check_finalise_extraction)
\* ---------------------------------------------------------------------------

INPUT_EXTRACTION_FINALISE_COUNT == 2

\* the repeated deliveries of marker events in one run
MaxRepeats == 1

JoinDeliveries == 1..(MaxRepeats + 1)

\* the markers the video fan-in of a run can write: the one of an input
\* analysed directly, the one of n >= 2 chunks, or, for an over-limit video
\* cut into a single chunk, the one of the input and the one of the chunk
VideoMarkerSets ==
  {{video_marker(1, RootFolder)}}
    \cup {{video_marker(n, ChunksFolder)} : n \in 2..MaxTotal}
    \cup {{video_marker(1, RootFolder), video_marker(1, ChunksFolder)}}

\* the marker the audio fan-in of a run writes: of the input (analysed, or
\* skipped), or of n >= 2 chunks
AudioMarkers ==
  {audio_marker(1, RootFolder)}
    \cup {audio_marker(n, ChunksFolder) : n \in 2..MaxTotal}

TranscriptionServices == {"WHISPER", "GEMINI", "NONE"}

skips_analysis_NoTrackOnly(input) == ~input.has_audio

\* process_audio: the condition of its else branch
skips_analysis(input) == ~(input.has_audio /\ input.transcription # "NONE")

JoinInit ==
  /\ joinInput \in [has_audio : BOOLEAN, transcription : TranscriptionServices]
  /\ joinAudio \in IF skips_analysis(joinInput)
                   THEN {audio_marker(1, RootFolder)}
                   ELSE AudioMarkers
  /\ joinVideo \in VideoMarkerSets
  /\ joinStorage = {}
  /\ joinPc = [m \in joinVideo \cup {joinAudio} |-> [d \in JoinDeliveries |-> "none"]]
  /\ joinListed = [m \in joinVideo \cup {joinAudio} |-> [d \in JoinDeliveries |-> NoCount]]
  /\ joinCreated = 0
  /\ joinAudioPc = "none"
  /\ IdleExceptJoin

OUTPUT_SUBTITLES_FILE == <<"input.vtt">>

\* process_audio: the branch taken; with audio to transcribe the chunks are
\* analysed by their own workers, without it _process_video_without_audio
\* uploads the empty subtitles
process_audio ==
  /\ joinAudioPc = "none"
  /\ IF ~skips_analysis(joinInput)
     THEN /\ joinAudioPc' = "analysing"
          /\ UNCHANGED joinStorage
     ELSE IF UploadAccepted(joinStorage, Key(RootFolder, 0, 0, OUTPUT_SUBTITLES_FILE), FALSE)
     THEN /\ joinStorage' = joinStorage \cup {Key(RootFolder, 0, 0, OUTPUT_SUBTITLES_FILE)}
          /\ joinAudioPc' = "subtitles"
     ELSE /\ joinAudioPc' = "raised"
          /\ UNCHANGED joinStorage
  /\ UNCHANGED <<joinAudio, joinVideo, joinPc, joinListed, joinCreated, joinInput,
                 otherThanJoin>>

\* _process_video_without_audio: _check_finalise_extract_audio(total_count=1,
\* gcs_folder=gcs_root_folder, skip_analysis=True)
_process_video_without_audio ==
  /\ joinAudioPc = "subtitles"
  /\ IF audio_analysed_count(joinStorage, RootFolder, TRUE) # 1
     THEN /\ joinAudioPc' = "done"
          /\ UNCHANGED joinStorage
     ELSE IF UploadAccepted(joinStorage, audio_marker(1, RootFolder), FALSE)
     THEN /\ joinStorage' = joinStorage \cup {audio_marker(1, RootFolder)}
          /\ joinAudioPc' = "done"
     ELSE /\ joinAudioPc' = "raised"
          /\ UNCHANGED joinStorage
  /\ UNCHANGED <<joinAudio, joinVideo, joinPc, joinListed, joinCreated, joinInput,
                 otherThanJoin>>

\* _check_finalise_extract_video / _check_finalise_extract_audio create a
\* marker of the run
write_marker(m) ==
  /\ m \notin joinStorage
  /\ m = joinAudio => joinAudioPc = "analysing"
  /\ joinStorage' = joinStorage \cup {m}
  /\ UNCHANGED <<joinAudio, joinVideo, joinPc, joinListed, joinCreated, joinInput,
                 joinAudioPc, otherThanJoin>>

\* the deliveries of the markers' events after the first that have started
Repeats ==
  Cardinality({md \in (joinVideo \cup {joinAudio}) \X JoinDeliveries :
                 md[2] > 1 /\ joinPc[md[1]][md[2]] # "none"})

\* check_finalise_extraction: finalise_count
extraction_finalise_count(store, gcs_folder) ==
  Cardinality(filter_files(store, gcs_folder, INPUT_EXTRACTION_FINALISE_SUFFIX))

\* check_finalise_extraction: `if finalise_count == INPUT_EXTRACTION_FINALISE_COUNT`
extraction_ready(finalise_count) == finalise_count = INPUT_EXTRACTION_FINALISE_COUNT

\* check_finalise_extraction: destination_file_name of the marker
extraction_marker(gcs_folder) == Key(gcs_folder, 0, 0, INPUT_EXTRACTION_FINALISE_FILE)

\* the upload of an audio or video marker invokes check_finalise_extraction
invokes_check(m) ==
  \/ is_extractor_finalise_audio_trigger(TriggerFile(m))
  \/ is_extractor_finalise_video_trigger(TriggerFile(m))

\* check_finalise_extraction, the listing; delivery d of the marker's event
check_finalise_extraction_list(m, d) ==
  /\ m \in joinStorage /\ invokes_check(m)
  /\ joinPc[m][d] = "none"
  /\ d > 1 => joinPc[m][d - 1] # "none"
  /\ d > 1 => Repeats < MaxRepeats
  /\ joinListed' = [joinListed EXCEPT
                      ![m][d] = extraction_finalise_count(joinStorage, GcsFolder(m))]
  /\ joinPc' = [joinPc EXCEPT ![m][d] = "listed"]
  /\ UNCHANGED <<joinAudio, joinVideo, joinStorage, joinCreated, joinInput,
                 joinAudioPc, otherThanJoin>>

\* check_finalise_extraction, the comparison and the upload of the marker
check_finalise_extraction_upload(m, d) ==
  /\ joinPc[m][d] = "listed"
  /\ IF ~extraction_ready(joinListed[m][d])
     THEN /\ joinPc' = [joinPc EXCEPT ![m][d] = "done"]
          /\ UNCHANGED <<joinStorage, joinCreated>>
     ELSE IF UploadAccepted(joinStorage, extraction_marker(GcsFolder(m)), FALSE)
     THEN /\ joinStorage' = joinStorage \cup {extraction_marker(GcsFolder(m))}
          /\ joinCreated' = joinCreated + 1
          /\ joinPc' = [joinPc EXCEPT ![m][d] = "done"]
     ELSE /\ joinPc' = [joinPc EXCEPT ![m][d] = "raised"]
          /\ UNCHANGED <<joinStorage, joinCreated>>
  /\ UNCHANGED <<joinAudio, joinVideo, joinListed, joinInput, joinAudioPc,
                 otherThanJoin>>

JoinNext ==
  \/ process_audio
  \/ _process_video_without_audio
  \/ \E m \in joinVideo \cup {joinAudio} : write_marker(m)
  \/ \E m \in joinVideo \cup {joinAudio}, d \in JoinDeliveries :
       check_finalise_extraction_list(m, d)
  \/ \E m \in joinVideo \cup {joinAudio}, d \in JoinDeliveries :
       check_finalise_extraction_upload(m, d)

JoinSpec == JoinInit /\ [][JoinNext]_vars

ExtractionMarkers == {k \in joinStorage : k.rest = INPUT_EXTRACTION_FINALISE_FILE}

\* C35: the extraction marker exists only in a state where the audio marker
\* and a video marker of the run exist, and it is created at most once in a
\* run, also when the checks run concurrently or again after it exists
C35_ExtractionMarkerOnceAfterBoth ==
  /\ ExtractionMarkers # {} =>
       joinAudio \in joinStorage /\ joinVideo \cap joinStorage # {}
  /\ joinCreated <= 1
  /\ Cardinality(ExtractionMarkers) <= 1

\* the input has no audio track, or transcription is disabled
AudioSkipped == ~joinInput.has_audio \/ joinInput.transcription = "NONE"

\* the two checks of a run with one video marker have ended for their first
\* delivery, with both markers written
FirstChecksEnded ==
  /\ Cardinality(joinVideo) = 1
  /\ joinVideo \cup {joinAudio} \subseteq joinStorage
  /\ \A m \in joinVideo \cup {joinAudio} : joinPc[m][1] \in {"done", "raised"}

MaxAudioChunks == 10

MaxChunkUtterances == 2

\* how many chunks of one run have a transcript of other than one utterance
MaxUneven == 2

\* the transcript a chunk worker wrote: n utterances with ids 1..n, utterance
\* j spoken from j-1 to j of the chunk's own time; chunk is the index of the
\* chunk the text belongs to
ChunkTranscript(chunk, n) ==
  [j \in 1..n |-> [audio_segment_id |-> j, start_s |-> j - 1, end_s |-> j,
                   chunk |-> chunk]]

MrgInit ==
  /\ \E n \in 1..MaxAudioChunks :
       \E counts \in [1..n -> 0..MaxChunkUtterances] :
         /\ Cardinality({c \in 1..n : counts[c] # 1}) <= MaxUneven
         /\ mrgChunks = [c \in 1..n |-> ChunkTranscript(c, counts[c])]
  /\ mrgListed = <<>> /\ mrgPos = 0 /\ mrgCombined = <<>>
  /\ mrgMaxId = 0 /\ mrgMaxEnd = 0 /\ mrgPc = "start"
  /\ IdleExceptMrg

\* the code points of the name f'{i}-{n}_transcript.json', up to the first
\* character after the numbers: '0' is 48, '-' is 45, '_' is 95
transcript_name(i, n) ==
  [k \in 1..Len(StrOf(i)) |-> 48 + StrOf(i)[k]] \o <<45>>
    \o [k \in 1..Len(StrOf(n)) |-> 48 + StrOf(n)[k]] \o <<95>>

\* the order of object names in a listing: by code point, a proper prefix
\* first
name_before(a, b) ==
  \E k \in 1..(Len(a) + 1) :
    /\ k <= Len(b)
    /\ SubSeq(a, 1, k - 1) = SubSeq(b, 1, k - 1)
    /\ k = Len(a) + 1 \/ a[k] < b[k]

\* filter_files for the transcripts of n chunks: the objects in the order
\* list_blobs returns them, which is the order of their names
listed_transcripts(n) ==
  [p \in 1..n |->
     CHOOSE i \in 1..n :
       Cardinality({j \in 1..n :
                      name_before(transcript_name(j, n), transcript_name(i, n))})
         = p - 1]

\* extract_audio_finalise up to the combination: the transcripts are read in
\* listing order; one dataframe is returned as it is
extract_audio_finalise ==
  /\ mrgPc = "start"
  /\ mrgListed' = listed_transcripts(Len(mrgChunks))
  /\ IF Len(mrgChunks) > 1
     THEN /\ mrgPc' = "combining"
          /\ UNCHANGED mrgCombined
     ELSE /\ mrgPc' = "done"
          /\ mrgCombined' = mrgChunks[1]
  /\ UNCHANGED <<mrgChunks, mrgPos, mrgMaxId, mrgMaxEnd, otherThanMrg>>

\* combine_analysis_chunks: one pass of its loop; a transcript without rows
\* was read back without columns and df['audio_segment_id'] raises
combine_analysis_chunks ==
  /\ mrgPc = "combining"
  /\ mrgPos < Len(mrgListed)
  /\ LET df == mrgChunks[mrgListed[mrgPos + 1]]
         shifted == [j \in 1..Len(df) |->
                       [df[j] EXCEPT !.audio_segment_id = @ + mrgMaxId,
                                     !.start_s = @ + mrgMaxEnd,
                                     !.end_s = @ + mrgMaxEnd]]
     IN IF Len(df) = 0
        THEN /\ mrgPc' = "raised"
             /\ UNCHANGED <<mrgPos, mrgCombined, mrgMaxId, mrgMaxEnd>>
        ELSE /\ mrgMaxId' = MaxOf({shifted[j].audio_segment_id : j \in 1..Len(df)})
             /\ mrgMaxEnd' = MaxOf({shifted[j].end_s : j \in 1..Len(df)})
             /\ mrgCombined' = mrgCombined \o shifted
             /\ mrgPos' = mrgPos + 1
             /\ mrgPc' = "combining"
  /\ UNCHANGED <<mrgChunks, mrgListed, otherThanMrg>>

\* combine_analysis_chunks returns combined_df
combine_return ==
  /\ mrgPc = "combining"
  /\ mrgPos = Len(mrgListed)
  /\ mrgPc' = "done"
  /\ UNCHANGED <<mrgChunks, mrgListed, mrgPos, mrgCombined, mrgMaxId, mrgMaxEnd,
                 otherThanMrg>>

MrgNext == extract_audio_finalise \/ combine_analysis_chunks \/ combine_return

MrgSpec == MrgInit /\ [][MrgNext]_vars

\* C36: the merged transcript has the ids 1, 2, ... in order, strictly
\* increasing start times, and holds the chunks' utterances in ascending order
\* of chunk index
C36_MergedTranscriptInChunkOrder ==
  mrgPc = "done" =>
    /\ \A j \in 1..Len(mrgCombined) : mrgCombined[j].audio_segment_id = j
    /\ \A j \in 1..(Len(mrgCombined) - 1) :
         /\ mrgCombined[j].start_s < mrgCombined[j + 1].start_s
         /\ mrgCombined[j].chunk <= mrgCombined[j + 1].chunk

====
